---- MODULE Spec2Model ----
(***************************************************************************)
(* A model of pynntp: the line buffer (nntp/fifo.py), the yEnc decoder     *)
(* (nntp/yenc.py) and the command engine of BaseNNTPClient / NNTPClient    *)
(* (nntp/nntp.py) with its three lazy response readers.                    *)
(*                                                                         *)
(* Bytes are integers 0..255 and byte strings are sequences of them.       *)
(* Python indices are 0-based; Find and the fifo cursor keep that.         *)
(***************************************************************************)
EXTENDS Integers, Sequences, FiniteSets, TLC

(***************************************************************************)
(* Bounds of the model.                                                    *)
(***************************************************************************)
\* recv() returns the bytes in flight but for at most MaxHeld trailing ones,
\* which arrive with a later recv()
MaxHeld == 2
\* top-level API calls (command / wrapper) the caller makes on one connection
MaxCalls == 2
\* times the server asks for credentials (480) on one connection
MaxChallenges == 2
\* post() is called at most MaxPosts times on a connection
MaxPosts == 1
\* the bytes written to a Fifo on its own, in all
MaxStream == 4
\* the length of a byte string that is yEnc-encoded and decoded
MaxPlain == 3
\* the calls made on a HeaderDict on its own
MaxOps == 4
\* the lines of an input of parse_headers
MaxLines == 3
\* the lines of a body read by a reader on its own
MaxBody == 2
\* the greatest length asked of read() on a Fifo on its own
MaxRead == 2
\* the bytes fed to a YEnc decoder on its own
MaxRaw == 3

(***************************************************************************)
(* Byte values the code names.                                             *)
(***************************************************************************)
CR == 13
LF == 10
DOT == 46
EQ == 61
EOL == <<CR, LF>>
TERMINATOR == <<DOT, CR, LF>>
\* bytes.rstrip() / bytes.split(None) whitespace
WHITESPACE == {9, 10, 11, 12, 13, 32}
DIGITS == 48..57
\* "+" and "-", and "_", which int() accepts before and between the digits
SIGNS == {43, 45}
UNDERSCORES == {95}

Min(a, b) == IF a < b THEN a ELSE b
Max(a, b) == IF a > b THEN a ELSE b

(***************************************************************************)
(* Python bytes helpers.                                                   *)
(***************************************************************************)
Slice(s, from, to) == SubSeq(s, from + 1, Min(to, Len(s)))

StartsWith(s, p) == Len(s) >= Len(p) /\ SubSeq(s, 1, Len(p)) = p

\* s.find(t, start): the least 0-based index >= start where t occurs, or -1
Find(s, t, start) ==
    LET hits == {i \in start..(Len(s) - Len(t)) : SubSeq(s, i + 1, i + Len(t)) = t}
    IN IF hits = {} THEN -1 ELSE CHOOSE i \in hits : \A j \in hits : i <= j

Contains(s, t) == Find(s, t, 0) >= 0

RECURSIVE Join(_)
Join(list) == IF list = <<>> THEN <<>> ELSE Head(list) \o Join(Tail(list))

RECURSIVE RStrip(_)
RStrip(s) ==
    IF s # <<>> /\ s[Len(s)] \in WHITESPACE THEN RStrip(SubSeq(s, 1, Len(s) - 1)) ELSE s

RECURSIVE LStrip(_)
LStrip(s) == IF s # <<>> /\ s[1] \in WHITESPACE THEN LStrip(Tail(s)) ELSE s

\* the length of the leading run of non-whitespace bytes
RECURSIVE TokenLen(_)
TokenLen(s) == IF s = <<>> \/ s[1] \in WHITESPACE THEN 0 ELSE 1 + TokenLen(Tail(s))

\* s.split(None, 1)
Split1(s) ==
    LET t == LStrip(s)
        n == TokenLen(t)
        rest == LStrip(SubSeq(t, n + 1, Len(t)))
    IN IF t = <<>> THEN <<>>
       ELSE IF rest = <<>> THEN <<SubSeq(t, 1, n)>>
       ELSE <<SubSeq(t, 1, n), rest>>

\* int(token) succeeds: optional sign, digits, single underscores between digits
IsInt(tok) ==
    LET d == IF tok # <<>> /\ tok[1] \in SIGNS THEN Tail(tok) ELSE tok
    IN /\ d # <<>>
       /\ \A i \in 1..Len(d) : d[i] \in DIGITS \cup UNDERSCORES
       /\ d[1] \notin UNDERSCORES /\ d[Len(d)] \notin UNDERSCORES
       /\ \A i \in 1..(Len(d) - 1) : ~(d[i] \in UNDERSCORES /\ d[i + 1] \in UNDERSCORES)

RECURSIVE DigitsVal(_, _)
DigitsVal(d, acc) ==
    IF d = <<>> THEN acc
    ELSE IF d[1] \in UNDERSCORES THEN DigitsVal(Tail(d), acc)
    ELSE DigitsVal(Tail(d), 10 * acc + (d[1] - 48))

IntOf(tok) ==
    IF tok[1] = 45 THEN 0 - DigitsVal(Tail(tok), 0)
    ELSE IF tok[1] = 43 THEN DigitsVal(Tail(tok), 0)
    ELSE DigitsVal(tok, 0)

\* bytes.decode("utf-8", "surrogateescape") on the modelled alphabet: an ASCII
\* byte is its code point, any other (invalid) byte b becomes U+DC00 + b
Decode(data) == [i \in 1..Len(data) |-> IF data[i] < 128 THEN data[i] ELSE 56320 + data[i]]

(***************************************************************************)
(* nntp/fifo.py: Fifo.  A fifo is [buf, buflist, pos].                     *)
(***************************************************************************)
DISCARD_SIZE == 65535

NewFifo == [buf |-> <<>>, buflist |-> <<>>, pos |-> 0]

FifoLen(f) == Len(f.buf) - f.pos

\* a variant of __discard that drops one byte more than was consumed
FifoDiscard_more(f) ==
    IF f.pos > DISCARD_SIZE
    THEN [f EXCEPT !.buf = SubSeq(f.buf, f.pos + 2, Len(f.buf)), !.pos = 0]
    ELSE f

FifoDiscard(f) ==
    IF f.pos > DISCARD_SIZE
    THEN [f EXCEPT !.buf = SubSeq(f.buf, f.pos + 1, Len(f.buf)), !.pos = 0]
    ELSE f

FifoAppend(f) == [f EXCEPT !.buf = f.buf \o Join(f.buflist), !.buflist = <<>>]

FifoClear(f) == NewFifo

FifoWrite(f, data) == [f EXCEPT !.buflist = Append(f.buflist, data)]

\* a variant of read that hands out all there is whatever the length asked
FifoRead_all(f, length) ==
    LET a == FifoAppend(f)
    IN [fifo |-> FifoClear(a), data |-> Slice(a.buf, a.pos, Len(a.buf))]

\* read(length): [fifo |-> the fifo afterwards, data |-> the bytes returned]
FifoRead(f, length) ==
    LET a == FifoAppend(f)
    IN IF 0 < length /\ length < FifoLen(a)
       THEN [fifo |-> FifoDiscard([a EXCEPT !.pos = a.pos + length]),
             data |-> Slice(a.buf, a.pos, a.pos + length)]
       ELSE [fifo |-> FifoClear(a), data |-> Slice(a.buf, a.pos, Len(a.buf))]

\* a variant of readline that hands out what there is when no line is complete
FifoReadline_partial(f) ==
    LET a == FifoAppend(f)
        i == Find(a.buf, EOL, a.pos)
    IN IF i < 0 THEN [fifo |-> FifoClear(a), data |-> Slice(a.buf, a.pos, Len(a.buf))]
       ELSE [fifo |-> FifoDiscard([a EXCEPT !.pos = i + Len(EOL)]),
             data |-> Slice(a.buf, a.pos, i + Len(EOL))]

FifoReadline(f) ==
    LET a == FifoAppend(f)
        i == Find(a.buf, EOL, a.pos)
    IN IF i < 0 THEN [fifo |-> a, data |-> <<>>]
       ELSE [fifo |-> FifoDiscard([a EXCEPT !.pos = i + Len(EOL)]),
             data |-> Slice(a.buf, a.pos, i + Len(EOL))]

\* the unread bytes, pending writes included
FifoUnread(f) == Slice(f.buf, f.pos, Len(f.buf)) \o Join(f.buflist)

\* list(fifo): readline until it returns empty
RECURSIVE FifoLines(_)
FifoLines(f) ==
    LET r == FifoReadline(f)
    IN IF r.data = <<>> THEN <<>> ELSE <<r.data>> \o FifoLines(r.fifo)

(***************************************************************************)
(* BaseNNTPClient.status: the outcome of parsing one status line.          *)
(* An outcome is how a call ends: kind "return" carries (code, message),    *)
(* "yield" a value, any other kind is the exception raised.                *)
(***************************************************************************)
Outcome(kind, code, message, text, value) ==
    [kind |-> kind, code |-> code, message |-> message, text |-> text, value |-> value]
Raise(exc, code, message) == Outcome(exc, code, message, "", <<>>)
RaiseText(exc, text) == Outcome(exc, 0, <<>>, text, <<>>)
Return(code, message) == Outcome("return", code, message, "", <<>>)
Yield(value) == Outcome("yield", 0, <<>>, "", value)
StopIteration == Outcome("StopIteration", 0, <<>>, "", <<>>)
NoOutcome == Outcome("none", 0, <<>>, "", <<>>)

status(rawline) ==
    LET line == RStrip(rawline)
        parts == Split1(line)
    IN IF parts = <<>> THEN Raise("IndexError", 0, <<>>)
       ELSE IF ~IsInt(parts[1]) THEN Raise("NNTPProtocolError", 0, line)
       ELSE LET code == IntOf(parts[1])
                message == Decode(IF Len(parts) > 1 THEN parts[2] ELSE <<>>)
            IN IF code < 100 \/ code >= 600 THEN Raise("NNTPProtocolError", 0, line)
               ELSE IF 400 <= code /\ code <= 499 THEN Raise("NNTPTemporaryError", code, message)
               ELSE IF 500 <= code /\ code <= 599 THEN Raise("NNTPPermanentError", code, message)
               ELSE Return(code, message)

(***************************************************************************)
(* 32-bit values (the CRC32) are four bytes, most significant first.       *)
(***************************************************************************)
RECURSIVE BitXor(_, _)
BitXor(a, b) ==
    IF a = 0 THEN b ELSE IF b = 0 THEN a
    ELSE ((a + b) % 2) + 2 * BitXor(a \div 2, b \div 2)

Xor32(x, y) == <<BitXor(x[1], y[1]), BitXor(x[2], y[2]), BitXor(x[3], y[3]), BitXor(x[4], y[4])>>

\* x >> 1
Shr32(x) ==
    <<x[1] \div 2, (x[2] \div 2) + 128 * (x[1] % 2), (x[3] \div 2) + 128 * (x[2] % 2),
      (x[4] \div 2) + 128 * (x[3] % 2)>>

\* the reflected IEEE polynomial 0xEDB88320 and 0xFFFFFFFF
CRC_POLY == <<237, 184, 131, 32>>
ONES32 == <<255, 255, 255, 255>>
ZERO32 == <<0, 0, 0, 0>>

RECURSIVE CrcBits(_, _)
CrcBits(c, n) ==
    IF n = 0 THEN c
    ELSE IF c[4] % 2 = 1 THEN CrcBits(Xor32(Shr32(c), CRC_POLY), n - 1)
    ELSE CrcBits(Shr32(c), n - 1)

RECURSIVE CrcUpdate(_, _)
CrcUpdate(c, data) ==
    IF data = <<>> THEN c
    ELSE CrcUpdate(CrcBits(<<c[1], c[2], c[3], BitXor(c[4], data[1])>>, 8), Tail(data))

\* zlib.crc32(data, value)
crc32(data, value) == Xor32(CrcUpdate(Xor32(value, ONES32), data), ONES32)

(***************************************************************************)
(* nntp/yenc.py                                                            *)
(***************************************************************************)
HEXDIGITS == (48..57) \cup (65..70) \cup (97..102)
HexVal(c) == IF c <= 57 THEN c - 48 ELSE IF c <= 70 THEN c - 55 ELSE c - 87

\* binascii.unhexlify + struct.unpack(">I") of eight hex digits
Unhex32(h) ==
    <<16 * HexVal(h[1]) + HexVal(h[2]), 16 * HexVal(h[3]) + HexVal(h[4]),
      16 * HexVal(h[5]) + HexVal(h[6]), 16 * HexVal(h[7]) + HexVal(h[8])>>

\* where _crc32_re = \s+crc(?:32)?=([0-9a-fA-F]{8}) matches with "crc" at 0-based
\* index j: the 0-based index of the hex group, or -1
CrcFieldAt(t, j) ==
    LET crc == <<99, 114, 99>>
        hexAt(k) == /\ k + 8 <= Len(t)
                    /\ \A i \in (k + 1)..(k + 8) : t[i] \in HEXDIGITS
    IN IF ~(j >= 1 /\ t[j] \in WHITESPACE /\ Slice(t, j, j + 3) = crc) THEN -1
       ELSE IF Slice(t, j + 3, j + 6) = <<51, 50, EQ>> /\ hexAt(j + 6) THEN j + 6
       ELSE IF Slice(t, j + 3, j + 4) = <<EQ>> /\ hexAt(j + 4) THEN j + 4
       ELSE -1

\* trailer_crc32: [found, value]
trailer_crc32(trailer) ==
    LET hits == {j \in 1..Len(trailer) : CrcFieldAt(trailer, j) >= 0}
    IN IF hits = {} THEN [found |-> FALSE, value |-> ZERO32]
       ELSE LET j == CHOOSE i \in hits : \A k \in hits : i <= k
                g == CrcFieldAt(trailer, j)
            IN [found |-> TRUE, value |-> Unhex32(Slice(trailer, g, g + 8))]

\* YEnc(): [crc32, escape]
NewYEnc == [crc32 |-> ZERO32, escape |-> 0]

\* a variant of the per-byte loop that skips CR and LF before it looks at
\* the escape flag
RECURSIVE YDecodeBytes_skip(_, _, _)
YDecodeBytes_skip(buf, escape, data) ==
    IF buf = <<>> THEN [escape |-> escape, data |-> data]
    ELSE LET b == Head(buf)
         IN IF b \in {CR, LF} THEN YDecodeBytes_skip(Tail(buf), escape, data)
            ELSE IF escape = 1
            THEN YDecodeBytes_skip(Tail(buf), 0, Append(data, (b - 106) % 256))
            ELSE IF b = EQ THEN YDecodeBytes_skip(Tail(buf), 1, data)
            ELSE YDecodeBytes_skip(Tail(buf), 0, Append(data, (b - 42) % 256))

\* the per-byte loop of YEnc.decode: [escape, data]
RECURSIVE YDecodeBytes(_, _, _)
YDecodeBytes(buf, escape, data) ==
    IF buf = <<>> THEN [escape |-> escape, data |-> data]
    ELSE LET b == Head(buf)
         IN IF escape = 1 THEN YDecodeBytes(Tail(buf), 0, Append(data, (b - 106) % 256))
            ELSE IF b = EQ THEN YDecodeBytes(Tail(buf), 1, data)
            ELSE IF b \in {CR, LF} THEN YDecodeBytes(Tail(buf), 0, data)
            ELSE YDecodeBytes(Tail(buf), 0, Append(data, (b - 42) % 256))

\* a variant of YEnc.decode that starts the CRC anew with each call
YEncDecode_fresh(dec, buf) ==
    LET r == YDecodeBytes(buf, dec.escape, <<>>)
    IN [dec |-> [crc32 |-> crc32(r.data, ZERO32), escape |-> r.escape],
        data |-> r.data]

\* a variant of YEnc.decode that forgets a pending escape between calls
YEncDecode_forget(dec, buf) ==
    LET r == YDecodeBytes(buf, 0, <<>>)
    IN [dec |-> [crc32 |-> crc32(r.data, dec.crc32), escape |-> r.escape],
        data |-> r.data]

\* YEnc.decode: [dec |-> the decoder afterwards, data |-> the decoded bytes]
YEncDecode(dec, buf) ==
    LET r == YDecodeBytes(buf, dec.escape, <<>>)
    IN [dec |-> [crc32 |-> crc32(r.data, dec.crc32), escape |-> r.escape],
        data |-> r.data]

(***************************************************************************)
(* zlib.decompressobj, by its stream contract.  The compressed form is a   *)
(* model codec: a payload byte b (ASCII) travels as 128 + b, any other as  *)
(* the byte STORED followed by b, and the stream ends with the byte 0; a   *)
(* gzip member (wbits 15 + 32) starts with the magic bytes 1f 8b, a raw    *)
(* stream (wbits -15) has no header.  As in                                *)
(* zlib, bytes after the end of the stream collect in unused_data, also    *)
(* over later decompress() calls, and a malformed byte is zlib.error.      *)
(***************************************************************************)
GZIP_MAGIC == <<31, 139>>
\* the byte that announces a stored byte: the one whose yEnc encoding is "."
STORED == (DOT + 256 - 42) % 256

\* [st, unused]: st is the number of header bytes still expected, or "body", "eof"
NewInflateGzip == [st |-> "magic1", unused |-> <<>>]
NewInflateRaw == [st |-> "body", unused |-> <<>>]

\* decompress(data): [inf, out, err]
RECURSIVE Decompress(_, _, _)
Decompress(inf, data, out) ==
    IF data = <<>> THEN [inf |-> inf, out |-> out, err |-> FALSE]
    ELSE LET b == Head(data)
         IN CASE inf.st = "eof" ->
                   [inf |-> [inf EXCEPT !.unused = inf.unused \o data], out |-> out, err |-> FALSE]
              [] inf.st = "magic1" ->
                   IF b = GZIP_MAGIC[1] THEN Decompress([inf EXCEPT !.st = "magic2"], Tail(data), out)
                   ELSE [inf |-> inf, out |-> out, err |-> TRUE]
              [] inf.st = "magic2" ->
                   IF b = GZIP_MAGIC[2] THEN Decompress([inf EXCEPT !.st = "body"], Tail(data), out)
                   ELSE [inf |-> inf, out |-> out, err |-> TRUE]
              [] inf.st = "stored" ->
                   Decompress([inf EXCEPT !.st = "body"], Tail(data), Append(out, b))
              [] OTHER ->
                   IF b = 0 THEN Decompress([inf EXCEPT !.st = "eof"], Tail(data), out)
                   ELSE IF b = STORED THEN Decompress([inf EXCEPT !.st = "stored"], Tail(data), out)
                   ELSE IF b >= 128 THEN Decompress(inf, Tail(data), Append(out, b - 128))
                   ELSE [inf |-> inf, out |-> out, err |-> TRUE]

(***************************************************************************)
(* The server and the transport.  The server answers each command line it  *)
(* receives; what it sends travels in `wire` until recv() returns it.      *)
(***************************************************************************)
Code3(n) == <<48 + (n \div 100), 48 + ((n \div 10) % 10), 48 + (n % 10)>>

StatusBytes(code, msg) == Code3(code) \o (IF msg = <<>> THEN <<>> ELSE <<32>> \o msg) \o EOL

\* "ok" and "[COMPRESS=GZIP]"
MSG_OK == <<111, 107>>
MSG_GZIP == <<91, 67, 79, 77, 80, 82, 69, 83, 83, 61, 71, 90, 73, 80, 93>>
\* the substring BaseNNTPClient._info looks for
COMPRESS_GZIP == <<67, 79, 77, 80, 82, 69, 83, 83, 61, 71, 90, 73, 80>>
YBEGIN == <<61, 121, 98, 101, 103, 105, 110>>
YEND == <<61, 121, 101, 110, 100>>
\* " crc32="
CRC_FIELD == <<32, 99, 114, 99, 51, 50, 61>>

\* NNTP dot-stuffing of one line
Stuff(line) == IF line # <<>> /\ line[1] = DOT THEN <<DOT>> \o line ELSE line

\* the lines of a body as sent: stuffed, each ending in CRLF
WireLines(lines) == Join([i \in 1..Len(lines) |-> Stuff(lines[i])])

RawLines(lines) == Join(lines)

Deflate(payload) ==
    Join([i \in 1..Len(payload) |->
             IF payload[i] < 128 THEN <<128 + payload[i]>> ELSE <<STORED, payload[i]>>])
    \o <<0>>
GzipCompress(payload) == GZIP_MAGIC \o Deflate(payload)

YEncByte(b) ==
    LET e == (b + 42) % 256
    IN IF e \in {0, LF, CR, EQ} THEN <<EQ, (e + 64) % 256>> ELSE <<e>>
YEncEncode(data) == Join([i \in 1..Len(data) |-> YEncByte(data[i])])

HexDigit(v) == IF v < 10 THEN 48 + v ELSE 87 + v
Hex32(x) == Join([i \in 1..4 |-> <<HexDigit(x[i] \div 16), HexDigit(x[i] % 16)>>])

\* the multi-line bodies the server may send: sequences of lines, CRLF included
\* "7", ".8" and, for LIST OVERVIEW.FMT, "S:"
LINE_A == <<55, CR, LF>>
LINE_B == <<DOT, 56, CR, LF>>
LINE_F == <<83, 58, CR, LF>>
\* "a 5 1 y": a line of the LIST response that parse_newsgroup accepts
LINE_G == <<97, 32, 53, 32, 49, 32, 121, CR, LF>>
Bodies(verb) ==
    IF verb = "LIST OVERVIEW.FMT" THEN {<<>>, <<LINE_F>>, <<LINE_A>>}
    ELSE IF verb = "LIST" THEN {<<>>, <<LINE_B, LINE_A>>, <<LINE_G>>}
    ELSE {<<>>, <<LINE_B, LINE_A>>}

\* a body in one of the four encodings the client has a reader for; "yznt",
\* "yznc" and "yzbc" are the yEnc+zlib encoding without its =yend line, with
\* an =yend line that has no crc32 field and with one whose crc32 is wrong
YzEncodings == {"yz", "yznt", "yznc", "yzbc"}
Encoded(lines, enc) ==
    CASE enc = "plain" -> WireLines(lines) \o TERMINATOR
      [] enc = "gzin" -> GzipCompress(WireLines(lines) \o TERMINATOR)
      [] enc = "gzout" -> GzipCompress(WireLines(lines)) \o TERMINATOR
      [] enc \in YzEncodings ->
           LET z == Deflate(RawLines(lines))
               crc == crc32(z, ZERO32)
           IN YBEGIN \o EOL
              \o Stuff(YEncEncode(z) \o EOL)
              \o (CASE enc = "yz" -> YEND \o CRC_FIELD \o Hex32(crc) \o EOL
                     [] enc = "yznt" -> <<>>
                     [] enc = "yznc" -> YEND \o EOL
                     [] OTHER -> YEND \o CRC_FIELD \o Hex32(Xor32(crc, ONES32)) \o EOL)
              \o TERMINATOR

\* the code that announces a multi-line body, per verb (RFC 3977 / RFC 2980)
BodyCode(verb) ==
    CASE verb = "HELP" -> 100
      [] verb \in {"LIST", "LIST OVERVIEW.FMT"} -> 215
      [] verb \in {"HDR", "XHDR", "XZHDR"} -> 221
      [] verb \in {"XOVER", "XZVER"} -> 224
      [] OTHER -> 0

Reply(bytes, lines, enc) == [bytes |-> bytes, lines |-> lines, enc |-> enc]
StatusOnly(code, msg) == Reply(StatusBytes(code, msg), <<>>, "none")

Encodings(verb) == {"plain", "gzin", "gzout"} \cup (IF verb \in {"XZHDR", "XZVER"} THEN {"yz"} ELSE {})

\* The servers of the model.  An "open" server never asks for credentials and
\* sends bodies in every encoding; an "auth" server may challenge (480) any
\* command, AUTHINFO included, until it has done so MaxChallenges times, and
\* otherwise answers 423 or with a plain body.
Servers == {"open", "auth"}
CHALLENGE == StatusOnly(480, MSG_OK)

\* what may follow a body: nothing, the start of a status line, a whole
\* line, another terminator
Followers == {<<>>, <<50>>, <<50, CR, LF>>, TERMINATOR}

\* the articles the server may send for ARTICLE: header lines, the empty
\* line that separates them from the body (absent in an article of headers
\* only) and body lines.  "Subject: a", " b" (a continuation), "Subject:
\* yEnc"; "=ybegin", "=yend" and between them the yEnc encoding of "7\r\n"
HDR_S == <<83, 117, 98, 106, 101, 99, 116, 58, 32, 97, CR, LF>>
HDR_C == <<32, 98, CR, LF>>
HDR_Y == <<83, 117, 98, 106, 101, 99, 116, 58, 32, 121, 69, 110, 99, CR, LF>>
ArticleHeaders == {<<>>, <<HDR_S>>, <<HDR_S, HDR_C>>, <<HDR_Y>>}
YENC_BODY == <<YBEGIN \o EOL, YEncEncode(LINE_A) \o EOL, YEND \o EOL>>
ArticleBodies ==
    UNION {[1..n -> {LINE_A, LINE_B, EOL}] : n \in 0..MaxBody}
    \cup {YENC_BODY, <<EOL>> \o YENC_BODY}
Article(headers, sep, body) == [headers |-> headers, sep |-> sep, body |-> body]
Articles ==
    {Article(h, TRUE, b) : h \in ArticleHeaders, b \in ArticleBodies}
    \cup {Article(h, FALSE, <<>>) : h \in ArticleHeaders}
ArticleBytes(a) ==
    WireLines(a.headers) \o (IF a.sep THEN EOL ELSE <<>>) \o WireLines(a.body)
    \o TERMINATOR
\* "1 <1> ok"
MSG_ARTICLE == <<49, 32, 60, 49, 62, 32, 111, 107>>
\* the response to BODY: the body of an article alone
BodyBytes(a) == WireLines(a.body) \o TERMINATOR

\* what server `kind` may answer to `verb` when it has challenged `n` times
ServerReplies(kind, verb, n) ==
    LET challenge == IF kind = "auth" /\ n < MaxChallenges THEN {CHALLENGE} ELSE {}
        encs == IF kind = "auth" THEN {"plain"} ELSE Encodings(verb)
    IN CASE verb = "AUTHINFO USER" ->
              challenge \cup {StatusOnly(381, MSG_OK), StatusOnly(281, MSG_OK),
                              StatusOnly(481, MSG_OK)}
         [] verb = "AUTHINFO PASS" ->
              challenge \cup {StatusOnly(281, MSG_OK), StatusOnly(381, <<>>),
                              StatusOnly(502, MSG_OK)}
         [] verb = "POST" ->
              challenge \cup {StatusOnly(340, MSG_OK), StatusOnly(440, MSG_OK),
                              StatusOnly(240, MSG_OK)}
         [] verb = "QUIT" ->
              challenge \cup {StatusOnly(205, MSG_OK), StatusOnly(200, MSG_OK),
                              StatusOnly(423, MSG_OK), StatusOnly(502, MSG_OK),
                              Reply(<<>>, <<>>, "none")}
         [] verb = "ARTICLE" ->
              challenge
              \cup {StatusOnly(430, MSG_OK), StatusOnly(220, <<>>), StatusOnly(220, MSG_OK)}
              \cup {Reply(StatusBytes(220, MSG_ARTICLE) \o ArticleBytes(a) \o after,
                          a, "article") : a \in Articles, after \in Followers}
         [] verb = "BODY" ->
              challenge
              \cup {StatusOnly(430, MSG_OK), StatusOnly(220, MSG_ARTICLE)}
              \cup {Reply(StatusBytes(222, MSG_ARTICLE) \o BodyBytes(Article(<<>>, TRUE, b))
                          \o after,
                          Article(<<>>, TRUE, b), "body") : b \in ArticleBodies,
                                                            after \in Followers}
         [] OTHER ->
              challenge
              \cup {StatusOnly(423, MSG_OK)}
              \cup (IF kind = "auth" THEN {}
                    ELSE {StatusOnly(502, <<>>), StatusOnly(205, MSG_OK),
                          Reply(EOL, <<>>, "none"), Reply(<<>>, <<>>, "none")})
              \cup {Reply(StatusBytes(BodyCode(verb),
                                      IF enc \in {"gzin", "gzout"} THEN MSG_GZIP ELSE MSG_OK)
                          \o Encoded(lines, enc), lines, enc) :
                        lines \in Bodies(verb), enc \in encs}

\* the sizes recv(4096) may return when `w` is in flight
RecvSizes(w) == {Min(4096, Len(w) - k) : k \in 0..Min(MaxHeld, Len(w) - 1)}

(***************************************************************************)
(* The client.                                                             *)
(***************************************************************************)
VARIABLES
    buffer,      \* self._buffer
    generating,  \* self._generating
    overview_fmt,\* the cached_property overview_fmt: [set, names]
    wire,        \* bytes the server has sent and recv() has not returned yet
    closed,      \* the connection is closed: by the server, or (SpecExit) by socket.close()
    sent,        \* the command lines written by sendall(), in order
    stack,       \* the active command() frames, innermost last
    call,        \* the caller's operation in progress: "idle", "command", "next"
    wrapper,     \* the wrapper whose command() is in progress, if any
    reader,      \* the generator object that info() returned
    outcome,     \* how the caller's last operation ended
    yielded,     \* the lines the current reader has yielded
    srv,         \* the server's latest reply, as it meant it
    ncalls,      \* top-level calls made
    api,         \* the part of the API this caller uses
    server,      \* the kind of server at the other end
    asked        \* times the server has asked for credentials

vars == <<buffer, generating, overview_fmt, wire, closed, sent, stack, call, wrapper,
          reader, outcome, yielded, srv, ncalls, api, server, asked>>

USERNAME == "u"
PASSWORD == "p"

\* cmd = f"{verb} {args}\r\n" if args else f"{verb}\r\n"
CmdLine(verb, args) == IF args # "" THEN <<verb, args>> ELSE <<verb>>

Frame(verb, args) == [verb |-> verb, args |-> args, pc |-> "status"]

\* NNTPTemporaryError and NNTPPermanentError derive from NNTPReplyError
IsReplyError(kind) == kind \in {"NNTPReplyError", "NNTPTemporaryError", "NNTPPermanentError"}

\* command(): `if self._generating: raise NNTPSyncError(...)`; the variant
\* is a command() without the check
SyncCheck_unchecked(gen) == FALSE
SyncCheck(gen) == gen
SyncError == RaiseText("NNTPSyncError", "Command issued while a generator is active")

\* a wrapper is the generator function of NNTPClient that called command():
\* its name, the verb its API call was made with, and what it has collected
NoWrapper == [name |-> "none", verb |-> "", acc |-> <<>>]

\* The effect of a command() frame receiving `res` from what it waits for:
\* [stack, write, done, out].  write holds the frame of the command() the
\* frame calls next, if any; done says that the outermost command() ended,
\* with out.
Step(st, write, done, out) == [stack |-> st, write |-> write, done |-> done, out |-> out]
Propagate(exc) == Step(<<>>, <<>>, TRUE, exc)
Pop(st) == SubSeq(st, 1, Len(st) - 1)
Goto(st, pc) == [st EXCEPT ![Len(st)].pc = pc]
\* command(verb, args) called from the frame on top of st, which moves to pc
Call(st, pc, verb, args, gen) ==
    IF SyncCheck(gen) THEN Propagate(SyncError)
    ELSE Step(Goto(st, pc), <<Frame(verb, args)>>, FALSE, NoOutcome)

RECURSIVE Deliver(_, _, _)
\* a variant of Deliver for a handler that does not check the reply to
\* AUTHINFO PASS
Deliver_unchecked(st, res, gen) ==
    IF st = <<>> THEN Step(<<>>, <<>>, TRUE, res)
    ELSE LET top == st[Len(st)]
         IN CASE top.pc = "user" ->
                   IF res.code = 381 THEN Call(st, "pass", "AUTHINFO PASS", PASSWORD, gen)
                   ELSE IF res.code # 281
                        THEN Propagate(Raise("NNTPReplyError", res.code, res.message))
                   ELSE Call(st, "retry", top.verb, top.args, gen)
              [] top.pc = "pass" -> Call(st, "retry", top.verb, top.args, gen)
              [] OTHER -> Deliver(Pop(st), res, gen)

\* a value returned to the frame on top of st, which is in its 480 handler
Deliver(st, res, gen) ==
    IF st = <<>> THEN Step(<<>>, <<>>, TRUE, res)
    ELSE LET top == st[Len(st)]
         IN CASE top.pc = "user" ->
                   IF res.code = 381 THEN Call(st, "pass", "AUTHINFO PASS", PASSWORD, gen)
                   ELSE IF res.code # 281
                        THEN Propagate(Raise("NNTPReplyError", res.code, res.message))
                   ELSE Call(st, "retry", top.verb, top.args, gen)
              [] top.pc = "pass" ->
                   IF res.code # 281
                   THEN Propagate(Raise("NNTPReplyError", res.code, res.message))
                   ELSE Call(st, "retry", top.verb, top.args, gen)
              [] OTHER -> Deliver(Pop(st), res, gen)

\* a variant of OnStatus for a command() that asks for credentials on every
\* temporary error
OnStatus_anytemp(st, res, gen) ==
    IF res.kind = "return" THEN Deliver(Pop(st), res, gen)
    ELSE IF res.kind = "NNTPTemporaryError"
         THEN Call(st, "user", "AUTHINFO USER", USERNAME, gen)
    ELSE Propagate(res)

\* a variant of OnStatus for a command() without the 480 handler
OnStatus_nohandler(st, res, gen) ==
    IF res.kind = "return" THEN Deliver(Pop(st), res, gen) ELSE Propagate(res)

\* the frame on top of st got `res` from status()
OnStatus(st, res, gen) ==
    IF res.kind = "return" THEN Deliver(Pop(st), res, gen)
    ELSE IF res.kind = "NNTPTemporaryError" /\ res.code = 480
         THEN Call(st, "user", "AUTHINFO USER", USERNAME, gen)
    ELSE Propagate(res)

(***************************************************************************)
(* The lazy readers.  A reader is the generator info() returns, with the   *)
(* locals of the _info_* generator it runs:                                *)
(*   pc       "new" (created, never advanced), "run" (being advanced),     *)
(*            "Y1" (suspended at `yield line[1:]`), "Y2" (suspended at     *)
(*            `yield line` / `yield from buf`), "done", "failed", "closed" *)
(*   pend     the line a reader suspended at Y1 yields next                *)
(*   gpc      _info_yenczlib: where its inner _info_plain generator is     *)
(***************************************************************************)
NoReader ==
    [pc |-> "none", message |-> <<>>, yz |-> FALSE, wrap |-> NoWrapper, kind |-> "none",
     src |-> StatusOnly(0, <<>>),
     pend |-> <<>>, gpc |-> "new", phase |-> "none", inflate |-> NewInflateRaw,
     buf |-> NewFifo, decoder |-> NewYEnc, trailer |-> <<>>]

\* info(code, message, yz), called by wrapper `wrap` (NoWrapper: by the caller);
\* src records the server reply the arguments came from
NewReader(message, yz, wrap, src) ==
    [NoReader EXCEPT !.pc = "new", !.message = message, !.yz = yz, !.wrap = wrap,
                     !.src = src]

\* BaseNNTPClient._info: which generator serves the response
info_kind_bug(message, yz) ==
    IF yz THEN "yenczlib" ELSE IF Contains(message, COMPRESS_GZIP) THEN "gzip" ELSE "plain"
info_kind(message, yz) ==
    IF Contains(message, COMPRESS_GZIP) THEN "gzip" ELSE IF yz THEN "yenczlib" ELSE "plain"

\* what one run of a reader comes to: ev is "need" (recv wanted), "yield",
\* "done" or "fail"
Ran(rd, bufr, gen, ev, out) ==
    [reader |-> rd, buffer |-> bufr, gen |-> gen, ev |-> ev, out |-> out]

\* _info_plain, from the top of its loop
RunPlain(rd, bufr, gen) ==
    LET r == FifoReadline(bufr)
        line == r.data
    IN IF line = <<>> THEN Ran(rd, r.fifo, gen, "need", NoOutcome)
       ELSE IF line = TERMINATOR
            THEN Ran([rd EXCEPT !.pc = "done"], r.fifo, FALSE, "done", StopIteration)
       ELSE IF StartsWith(line, <<DOT>>)
            THEN Ran([rd EXCEPT !.pc = "Y1", !.pend = line], r.fifo, gen, "yield",
                     Yield(Tail(line)))
       ELSE Ran([rd EXCEPT !.pc = "Y2"], r.fifo, gen, "yield", Yield(line))

\* _info_gzip, from `for line in buf`
RECURSIVE RunGzip(_, _, _)
RunGzip(rd, bufr, gen) ==
    LET l == FifoReadline(rd.buf)
        line == l.data
        rd1 == [rd EXCEPT !.buf = l.fifo]
    IN IF line # <<>>
       THEN IF line = TERMINATOR
            THEN Ran([rd1 EXCEPT !.pc = "done"], bufr, FALSE, "done", StopIteration)
            ELSE IF StartsWith(line, <<DOT>>)
                 THEN Ran([rd1 EXCEPT !.pc = "Y1", !.pend = line], bufr, gen, "yield",
                          Yield(Tail(line)))
            ELSE Ran([rd1 EXCEPT !.pc = "Y2"], bufr, gen, "yield", Yield(line))
       ELSE LET c == FifoRead(bufr, 0)
                d == Decompress(rd.inflate, c.data, <<>>)
                b1 == IF d.out # <<>> THEN FifoWrite(l.fifo, d.out) ELSE l.fifo
                b2 == IF d.inf.unused # <<>> THEN FifoWrite(b1, d.inf.unused) ELSE b1
            IN IF c.data = <<>> THEN Ran(rd1, c.fifo, gen, "need", NoOutcome)
               ELSE IF d.err
                    THEN Ran([rd1 EXCEPT !.pc = "failed"], c.fifo, gen, "fail",
                             RaiseText("NNTPDataError", "Decompression failed"))
               ELSE RunGzip([rd EXCEPT !.inflate = d.inf, !.buf = b2], c.fifo, gen)

\* a variant of the trailer checks that lets a trailer without a crc32
\* field pass
YzTrailer_lenient(rd) ==
    LET t == trailer_crc32(rd.trailer)
    IN IF rd.trailer = <<>> THEN RaiseText("NNTPDataError", "Missing yEnc trailer")
       ELSE IF t.found /\ t.value # rd.decoder.crc32
            THEN RaiseText("NNTPDataError", "Bad yEnc CRC")
       ELSE StopIteration

\* the trailer checks that end _info_yenczlib
YzTrailer(rd) ==
    LET t == trailer_crc32(rd.trailer)
    IN IF rd.trailer = <<>> THEN RaiseText("NNTPDataError", "Missing yEnc trailer")
       ELSE IF ~t.found THEN RaiseText("NNTPDataError", "Bad yEnc trailer")
       ELSE IF t.value # rd.decoder.crc32 THEN RaiseText("NNTPDataError", "Bad yEnc CRC")
       ELSE StopIteration

\* _info_yenczlib
RECURSIVE RunYz(_, _, _)
RECURSIVE YzLine(_, _, _, _)
\* the body of `for line in self._info_plain()` for one line
YzLine(rd, bufr, gen, line) ==
    LET dd == YEncDecode(rd.decoder, line)
        z == Decompress(rd.inflate, dd.data, <<>>)
    IN IF StartsWith(line, YEND) THEN RunYz([rd EXCEPT !.trailer = line], bufr, gen)
       ELSE IF z.err
            THEN Ran([rd EXCEPT !.pc = "failed", !.decoder = dd.dec], bufr, gen, "fail",
                     RaiseText("NNTPDataError", "Decompression failed"))
       ELSE IF z.out = <<>>
            THEN RunYz([rd EXCEPT !.decoder = dd.dec, !.inflate = z.inf], bufr, gen)
       ELSE RunYz([rd EXCEPT !.decoder = dd.dec, !.inflate = z.inf,
                              !.buf = FifoWrite(rd.buf, z.out)], bufr, gen)

RunYz(rd, bufr, gen) ==
    LET r == FifoReadline(bufr)
        line == r.data
        header == IF StartsWith(line, <<DOT>>) THEN Tail(line) ELSE line
        l == FifoReadline(rd.buf)
        rd1 == [rd EXCEPT !.buf = l.fifo]
        end == YzTrailer(rd1)
    IN IF rd.phase = "header"
       THEN \* header = next(self._info_plain())
            IF line = <<>> THEN Ran(rd, r.fifo, gen, "need", NoOutcome)
            ELSE IF line = TERMINATOR
                 THEN Ran([rd EXCEPT !.pc = "failed", !.gpc = "done"], r.fifo, FALSE, "fail",
                          RaiseText("RuntimeError", "generator raised StopIteration"))
            ELSE IF ~StartsWith(header, YBEGIN)
                 THEN Ran([rd EXCEPT !.pc = "failed"], r.fifo, gen, "fail",
                          RaiseText("NNTPDataError", "Bad yEnc header"))
            ELSE RunYz([rd EXCEPT !.phase = "data", !.gpc = "new"], r.fifo, gen)
       ELSE IF l.data # <<>>
            THEN \* yield from buf
                 Ran([rd1 EXCEPT !.pc = "Y2"], bufr, gen, "yield", Yield(l.data))
       ELSE IF rd.gpc = "Y1"
            THEN \* the inner generator's second yield of a dot line
                 YzLine([rd1 EXCEPT !.gpc = "Y2"], bufr, gen, rd.pend)
       ELSE IF line = <<>> THEN Ran(rd1, r.fifo, gen, "need", NoOutcome)
       ELSE IF line = TERMINATOR
            THEN Ran([rd1 EXCEPT !.pc = IF end.kind = "StopIteration" THEN "done" ELSE "failed",
                                 !.gpc = "done"],
                     r.fifo, FALSE, IF end.kind = "StopIteration" THEN "done" ELSE "fail", end)
       ELSE IF StartsWith(line, <<DOT>>)
            THEN YzLine([rd1 EXCEPT !.gpc = "Y1", !.pend = line], r.fifo, gen, Tail(line))
       ELSE YzLine([rd1 EXCEPT !.gpc = "Y2"], r.fifo, gen, line)

Run(rd, bufr, gen) ==
    CASE rd.kind = "plain" -> RunPlain(rd, bufr, gen)
      [] rd.kind = "gzip" -> RunGzip(rd, bufr, gen)
      [] OTHER -> RunYz(rd, bufr, gen)

\* the first advance of a reader: _info picks the generator, which starts
Start(rd) ==
    LET kind == info_kind(rd.message, rd.yz)
    IN CASE kind = "plain" -> [rd EXCEPT !.pc = "run", !.kind = kind]
         [] kind = "gzip" ->
              [rd EXCEPT !.pc = "run", !.kind = kind, !.inflate = NewInflateGzip,
                         !.buf = NewFifo]
         [] OTHER ->
              [rd EXCEPT !.pc = "run", !.kind = kind, !.inflate = NewInflateRaw,
                         !.buf = NewFifo, !.decoder = NewYEnc, !.trailer = <<>>,
                         !.phase = "header"]


\* next() on a reader: a reader suspended at `yield line[1:]` goes on to
\* `yield line`, any other runs from the top of its loop
Advance(rd, bufr, gen) ==
    IF rd.pc = "Y1" THEN Ran([rd EXCEPT !.pc = "Y2"], bufr, gen, "yield", Yield(rd.pend))
    ELSE Run(rd, bufr, gen)

(***************************************************************************)
(* The wrappers of NNTPClient that the caller may use.                     *)
(***************************************************************************)
\* str.strip() and str.split(), str.split(sep)
Strip(s) == LStrip(RStrip(s))

RECURSIVE SplitAll(_)
SplitAll(s) ==
    LET t == LStrip(s)
        n == TokenLen(t)
    IN IF t = <<>> THEN <<>> ELSE <<SubSeq(t, 1, n)>> \o SplitAll(SubSeq(t, n + 1, Len(t)))

RECURSIVE SplitOn(_, _)
SplitOn(s, sep) ==
    LET i == Find(s, <<sep>>, 0)
    IN IF i < 0 THEN <<s>> ELSE <<SubSeq(s, 1, i)>> \o SplitOn(SubSeq(s, i + 2, Len(s)), sep)

\* the loop body of NNTPClient._hdr
hdr_parse(line) ==
    LET parts == Split1(line)
    IN IF parts = <<>> \/ ~IsInt(parts[1])
       THEN RaiseText("NNTPDataError", "Invalid XHDR response")
       ELSE Yield(<<IntOf(parts[1]), IF Len(parts) > 1 THEN parts[2] ELSE <<>>>>)

\* utils.parse_newsgroup
parse_newsgroup(line) ==
    LET parts == SplitAll(line)
    IN IF Len(parts) < 4 \/ ~IsInt(parts[2]) \/ ~IsInt(parts[3])
       THEN RaiseText("ValueError", "Invalid newsgroup info")
       ELSE Yield(<<parts[1], IntOf(parts[2]), IntOf(parts[3]), parts[4]>>)

\* the loop body of NNTPClient.list_overview_fmt
fmt_parse(line) ==
    LET parts == SplitOn(RStrip(line), 58)
        swap == Len(parts) = 2 /\ parts[2] # <<>> /\ parts[1] = <<>>
        name == IF swap THEN parts[2] ELSE parts[1]
        suffix == IF swap THEN parts[1] ELSE parts[2]
    IN IF Len(parts) # 2 THEN RaiseText("NNTPDataError", "Invalid LIST OVERVIEW.FMT")
       ELSE IF suffix # <<>> /\ suffix # <<102, 117, 108, 108>>
            THEN RaiseText("NNTPDataError", "Invalid LIST OVERVIEW.FMT")
       ELSE Yield(<<name, suffix = <<102, 117, 108, 108>>>>)

\* the loop body of NNTPClient._xover
xover_parse(line, fmt) ==
    LET parts == SplitOn(RStrip(line), 9)
        n == Min(Len(fmt), Len(parts) - 1)
    IN IF ~IsInt(Strip(parts[1])) THEN RaiseText("NNTPDataError", "Invalid response")
       ELSE Yield(<<IntOf(Strip(parts[1])), [i \in 1..n |-> <<fmt[i], parts[i + 1]>>]>>)

\* what a wrapper makes of a line its reader yielded
wrapper_parse(w, line, fmt) ==
    CASE w.name = "_hdr" -> hdr_parse(line)
      [] w.name = "list_active" -> parse_newsgroup(line)
      [] w.name = "list_overview_fmt" -> fmt_parse(line)
      [] w.name = "_xover" -> xover_parse(line, fmt)
      [] OTHER -> Yield(line)

\* yz = verb == "XZHDR" in _hdr, yz = verb == "XZVER" in _xover; list_active and
\* list_overview_fmt pass no yz
wrapper_yz(w) ==
    \/ w.name = "_hdr" /\ w.verb = "XZHDR"
    \/ w.name = "_xover" /\ w.verb = "XZVER"

\* the code a wrapper insists on
wrapper_code(w) ==
    CASE w.name = "_hdr" -> 221
      [] w.name = "_xover" -> 224
      [] OTHER -> 215

\* the command() a wrapper calls
wrapper_frame(w) ==
    CASE w.name = "list_overview_fmt" -> Frame("LIST OVERVIEW.FMT", "")
      [] w.name = "_hdr" -> Frame(w.verb, "Subject")
      [] OTHER -> Frame(w.verb, "")

\* overview_fmt: unset, and the fallback of its `except NNTPError`
\* (Subject, From, Date, Message-ID, References, Bytes, Lines)
UNSET_FMT == [set |-> FALSE, names |-> <<>>]
FALLBACK_FMT ==
    [set |-> TRUE,
     names |-> << <<83, 117, 98, 106, 101, 99, 116>>, <<70, 114, 111, 109>>,
                  <<68, 97, 116, 101>>, <<77, 101, 115, 115, 97, 103, 101, 45, 73, 68>>,
                  <<82, 101, 102, 101, 114, 101, 110, 99, 101, 115>>,
                  <<66, 121, 116, 101, 115>>, <<76, 105, 110, 101, 115>> >>]

IsNNTPError(kind) ==
    \/ IsReplyError(kind)
    \/ kind \in {"NNTPError", "NNTPSyncError", "NNTPProtocolError", "NNTPDataError"}

\* What a wrapper comes to: [act, out, w, fmt].  act "end": the caller gets
\* out; "send": wrapper w calls command(); "read": w advances the reader of
\* the response out announces; "more": w advances its reader again.
Does(act, out, w, fmt) == [act |-> act, out |-> out, w |-> w, fmt |-> fmt]

\* wrapper w calls command()
WrapperCalls(w, gen, fmt) ==
    IF SyncCheck(gen) THEN Does("end", SyncError, w, fmt) ELSE Does("send", NoOutcome, w, fmt)

\* _xover(verb), once overview_fmt has its value
XoverCalls(verb, gen, fmt) == WrapperCalls([name |-> "_xover", verb |-> verb, acc |-> <<>>], gen, fmt)

\* a variant of WrapperFails whose fallback is not kept in overview_fmt
WrapperFails_nocache(w, e, gen, fmt) ==
    IF w.name = "list_overview_fmt" /\ IsNNTPError(e.kind)
    THEN XoverCalls(w.verb, gen, fmt)
    ELSE Does("end", e, w, fmt)

\* exception e is raised inside wrapper w
WrapperFails(w, e, gen, fmt) ==
    IF w.name = "list_overview_fmt" /\ IsNNTPError(e.kind)
    THEN XoverCalls(w.verb, gen, FALLBACK_FMT)
    ELSE Does("end", e, w, fmt)

\* a variant of AfterCommand for wrappers that take any returned code
AfterCommand_anycode(w, out, gen, fmt) ==
    IF w.name = "none" THEN Does("end", out, w, fmt)
    ELSE IF out.kind # "return" THEN WrapperFails(w, out, gen, fmt)
    ELSE Does("read", out, w, fmt)

\* the command() that w called ended with out
AfterCommand(w, out, gen, fmt) ==
    IF w.name = "none" THEN Does("end", out, w, fmt)
    ELSE IF out.kind # "return" THEN WrapperFails(w, out, gen, fmt)
    ELSE IF out.code # wrapper_code(w)
         THEN WrapperFails(w, Raise("NNTPReplyError", out.code, out.message), gen, fmt)
    ELSE Does("read", out, w, fmt)

\* the reader that w advances came to `run`
AfterReader(w, run, fmt) ==
    LET line == Decode(run.out.value)
        parsed == wrapper_parse(w, line, fmt.names)
    IN CASE run.ev = "yield" ->
              IF parsed.kind # "yield" THEN WrapperFails(w, parsed, run.gen, fmt)
              ELSE IF w.name = "list_overview_fmt"
                   THEN Does("more", NoOutcome, [w EXCEPT !.acc = Append(w.acc, parsed.value[1])], fmt)
              ELSE Does("end", parsed, w, fmt)
         [] run.ev = "done" ->
              IF w.name = "list_overview_fmt"
              THEN XoverCalls(w.verb, run.gen, [set |-> TRUE, names |-> w.acc])
              ELSE Does("end", run.out, w, fmt)
         [] OTHER -> WrapperFails(w, run.out, run.gen, fmt)

\* the parts of the API a caller may use, and the verbs it uses them with
APIs == {"raw", "_hdr", "list_active", "_xover"}
Verbs(a) ==
    CASE a = "raw" -> {"XZHDR"}
      [] a = "_hdr" -> {"XHDR", "XZHDR"}
      [] a = "_xover" -> {"XOVER", "XZVER"}
      [] OTHER -> {"LIST"}

\* the codes after which a caller of the raw API asks for a reader
BodyCodes == {100, 215, 221, 224}

(***************************************************************************)
(* Actions.                                                                *)
(***************************************************************************)
Init ==
    /\ buffer = NewFifo
    /\ generating = FALSE
    /\ overview_fmt = UNSET_FMT
    /\ wire = <<>>
    /\ closed = FALSE
    /\ sent = <<>>
    /\ stack = <<>>
    /\ call = "idle"
    /\ wrapper = NoWrapper
    /\ reader = NoReader
    /\ outcome = NoOutcome
    /\ yielded = <<>>
    /\ srv = StatusOnly(0, <<>>)
    /\ ncalls = 0
    /\ api \in APIs
    /\ server \in Servers
    /\ asked = 0

\* a variant of Send for a command() that writes AUTHINFO USER and AUTHINFO
\* PASS together, without waiting for the answer to the first
Send_pipelined(frame, cl) ==
    \E rep \in IF cl THEN {Reply(<<>>, <<>>, "none")}
               ELSE ServerReplies(server, frame.verb, asked) :
        /\ sent' = IF frame.verb = "AUTHINFO USER"
                   THEN sent \o <<CmdLine(frame.verb, frame.args),
                                  CmdLine("AUTHINFO PASS", PASSWORD)>>
                   ELSE Append(sent, CmdLine(frame.verb, frame.args))
        /\ wire' = wire \o rep.bytes
        /\ srv' = rep
        /\ asked' = IF rep = CHALLENGE THEN asked + 1 ELSE asked
        /\ closed' = (cl \/ rep.bytes = <<>>)

\* sendall(cmd) of the command() in `frame`, and the server's answer to it;
\* cl says whether the server has closed the connection
Send(frame, cl) ==
    \E rep \in IF cl THEN {Reply(<<>>, <<>>, "none")}
               ELSE ServerReplies(server, frame.verb, asked) :
        /\ sent' = Append(sent, CmdLine(frame.verb, frame.args))
        /\ wire' = wire \o rep.bytes
        /\ srv' = rep
        /\ asked' = IF rep = CHALLENGE THEN asked + 1 ELSE asked
        /\ closed' = (cl \/ rep.bytes = <<>>)

\* what `d` (a Does) makes of the connection; rd, gen, yl and cl are the reader,
\* the flag, the lines yielded and the server's state as they are by then
Conclude(d, rd, gen, yl, cl) ==
    /\ overview_fmt' = d.fmt
    /\ CASE d.act = "send" ->
              /\ Send(wrapper_frame(d.w), cl)
              /\ stack' = <<wrapper_frame(d.w)>>
              /\ call' = "command"
              /\ wrapper' = d.w
              /\ outcome' = NoOutcome
              /\ reader' = rd
              /\ generating' = gen
              /\ yielded' = yl
         [] d.act = "read" ->
              \* for line in self.info(code, message, yz=yz): the first advance
              /\ reader' = Start(NewReader(d.out.message, wrapper_yz(d.w), d.w, srv))
              /\ generating' = TRUE
              /\ yielded' = <<>>
              /\ stack' = <<>>
              /\ call' = "next"
              /\ wrapper' = NoWrapper
              /\ outcome' = NoOutcome
              /\ closed' = cl
              /\ UNCHANGED <<sent, wire, srv, asked>>
         [] d.act = "more" ->
              /\ reader' = [rd EXCEPT !.wrap = d.w]
              /\ generating' = gen
              /\ yielded' = yl
              /\ call' = "next"
              /\ outcome' = NoOutcome
              /\ closed' = cl
              /\ UNCHANGED <<stack, wrapper, sent, wire, srv, asked>>
         [] OTHER ->
              /\ outcome' = d.out
              /\ call' = "idle"
              /\ stack' = <<>>
              /\ wrapper' = NoWrapper
              /\ reader' = rd
              /\ generating' = gen
              /\ yielded' = yl
              /\ closed' = cl
              /\ UNCHANGED <<sent, wire, srv, asked>>

\* the caller calls command()
CallCommand ==
    /\ api = "raw"
    /\ call = "idle"
    /\ ncalls < MaxCalls
    /\ ncalls' = ncalls + 1
    /\ \E verb \in Verbs(api) :
         IF SyncCheck(generating)
         THEN /\ outcome' = SyncError
              /\ UNCHANGED <<sent, wire, srv, asked, closed, stack, call>>
         ELSE /\ Send(Frame(verb, "Subject"), closed)
              /\ stack' = <<Frame(verb, "Subject")>>
              /\ call' = "command"
              /\ outcome' = NoOutcome
    /\ UNCHANGED <<buffer, generating, overview_fmt, wrapper, reader, yielded, api, server>>

\* the caller advances a fresh wrapper generator, which calls command();
\* _xover gets overview_fmt first, which runs list_overview_fmt when unset
CallWrapper ==
    /\ api # "raw"
    /\ call = "idle"
    /\ ncalls < MaxCalls
    /\ ncalls' = ncalls + 1
    /\ \E verb \in Verbs(api) :
         LET w == [name |-> api, verb |-> verb, acc |-> <<>>]
             f == [name |-> "list_overview_fmt", verb |-> verb, acc |-> <<>>]
             d == IF api # "_xover" \/ overview_fmt.set
                  THEN WrapperCalls(w, generating, overview_fmt)
                  ELSE IF SyncCheck(generating)
                       THEN WrapperFails(f, SyncError, generating, overview_fmt)
                  ELSE WrapperCalls(f, generating, overview_fmt)
         IN Conclude(d, reader, generating, yielded, closed)
    /\ UNCHANGED <<buffer, api, server>>

\* status() finds a line in the buffer
StatusLine ==
    /\ call = "command"
    /\ LET r == FifoReadline(buffer)
           p == OnStatus(stack, status(r.data), generating)
       IN /\ r.data # <<>>
          /\ buffer' = r.fifo
          /\ IF p.done
             THEN Conclude(AfterCommand(wrapper, p.out, generating, overview_fmt),
                           reader, generating, yielded, closed)
             ELSE /\ stack' = p.stack \o p.write
                  /\ Send(p.write[1], closed)
                  /\ UNCHANGED <<outcome, call, reader, yielded, generating, wrapper,
                                 overview_fmt>>
    /\ UNCHANGED <<ncalls, api, server>>

\* a variant of CommandRecv for a _recv that does not look at what recv()
\* returned: at the end of the stream status() makes do with the unread bytes
CommandRecv_partial ==
    /\ call = "command"
    /\ LET r == FifoReadline(buffer)
       IN /\ r.data = <<>>
          /\ \/ /\ wire # <<>>
                /\ \E n \in RecvSizes(wire) :
                     /\ buffer' = FifoWrite(r.fifo, SubSeq(wire, 1, n))
                     /\ wire' = SubSeq(wire, n + 1, Len(wire))
                /\ UNCHANGED <<stack, call, outcome, wrapper, closed, generating, overview_fmt,
                               sent, reader, yielded, srv, asked>>
             \/ /\ wire = <<>>
                /\ buffer' = FifoClear(r.fifo)
                /\ Conclude(AfterCommand(wrapper, status(FifoUnread(r.fifo)),
                                         generating, overview_fmt),
                            reader, generating, yielded, TRUE)
    /\ UNCHANGED <<ncalls, api, server>>

\* status() finds no line: _recv(), which fails when the server has closed
CommandRecv ==
    /\ call = "command"
    /\ LET r == FifoReadline(buffer)
       IN /\ r.data = <<>>
          /\ \/ /\ wire # <<>>
                /\ \E n \in RecvSizes(wire) :
                     /\ buffer' = FifoWrite(r.fifo, SubSeq(wire, 1, n))
                     /\ wire' = SubSeq(wire, n + 1, Len(wire))
                /\ UNCHANGED <<stack, call, outcome, wrapper, closed, generating, overview_fmt,
                               sent, reader, yielded, srv, asked>>
             \/ /\ wire = <<>>
                /\ buffer' = r.fifo
                /\ Conclude(AfterCommand(wrapper, RaiseText("NNTPError", "Failed to read from socket"),
                                         generating, overview_fmt),
                            reader, generating, yielded, TRUE)
    /\ UNCHANGED <<ncalls, api, server>>

\* a variant of Info for an info() that sets the flag when it is called
\* rather than when its generator first runs
Info_eager ==
    /\ api = "raw"
    /\ call = "idle"
    /\ outcome.kind = "return"
    /\ outcome.code \in BodyCodes
    /\ \E yz \in BOOLEAN : reader' = NewReader(outcome.message, yz, NoWrapper, srv)
    /\ generating' = TRUE
    /\ yielded' = <<>>
    /\ outcome' = Outcome("info", outcome.code, outcome.message, "", <<>>)
    /\ UNCHANGED <<buffer, overview_fmt, wire, closed, sent, stack, call, wrapper,
                   srv, ncalls, api, server, asked>>

\* the caller creates a reader for the response just announced
Info ==
    /\ api = "raw"
    /\ call = "idle"
    /\ outcome.kind = "return"
    /\ outcome.code \in BodyCodes
    /\ \E yz \in BOOLEAN : reader' = NewReader(outcome.message, yz, NoWrapper, srv)
    /\ yielded' = <<>>
    /\ outcome' = Outcome("info", outcome.code, outcome.message, "", <<>>)
    /\ UNCHANGED <<buffer, generating, overview_fmt, wire, closed, sent, stack, call, wrapper,
                   srv, ncalls, api, server, asked>>

\* what the advance of a reader that came to `run` makes of the connection
ReaderEvent(run, cl) ==
    LET d == AfterReader(run.reader.wrap, run, overview_fmt)
        died == run.ev = "yield" /\ d.act \in {"end", "send"} /\ d.out.kind # "yield"
        rd == IF died THEN [run.reader EXCEPT !.pc = "closed"] ELSE run.reader
        yl == IF run.ev = "yield" THEN Append(yielded, Decode(run.out.value)) ELSE yielded
    IN Conclude(d, rd, run.gen, yl, cl)

\* next(reader), by the caller
Next_ ==
    /\ call = "idle"
    /\ reader.pc \in {"new", "Y1", "Y2"}
    /\ IF reader.pc = "Y1"
       THEN ReaderEvent(Advance(reader, buffer, generating), closed)
       ELSE /\ reader' = IF reader.pc = "new" THEN Start(reader)
                         ELSE [reader EXCEPT !.pc = "run"]
            /\ generating' = IF reader.pc = "new" THEN TRUE ELSE generating
            /\ call' = "next"
            /\ outcome' = NoOutcome
            /\ UNCHANGED <<yielded, overview_fmt, wire, closed, sent, stack, wrapper, srv, asked>>
    /\ UNCHANGED <<buffer, ncalls, api, server>>

\* the reader being advanced gets to its next yield, to its end or to an error
ReaderStep ==
    /\ call = "next"
    /\ LET run == Advance(reader, buffer, generating)
       IN /\ run.ev # "need"
          /\ buffer' = run.buffer
          /\ ReaderEvent(run, closed)
    /\ UNCHANGED <<ncalls, api, server>>

\* the reader being advanced needs more bytes: _recv()
ReaderRecv ==
    /\ call = "next"
    /\ LET run == Advance(reader, buffer, generating)
       IN /\ run.ev = "need"
          /\ \/ /\ wire # <<>>
                /\ \E n \in RecvSizes(wire) :
                     /\ buffer' = FifoWrite(run.buffer, SubSeq(wire, 1, n))
                     /\ wire' = SubSeq(wire, n + 1, Len(wire))
                /\ reader' = run.reader
                /\ generating' = run.gen
                /\ UNCHANGED <<call, outcome, closed, overview_fmt, sent, stack, wrapper,
                               yielded, srv, asked>>
             \/ /\ wire = <<>>
                /\ buffer' = run.buffer
                /\ ReaderEvent(Ran([run.reader EXCEPT !.pc = "failed"], run.buffer, run.gen,
                                   "fail", RaiseText("NNTPError", "Failed to read from socket")),
                               TRUE)
    /\ UNCHANGED <<ncalls, api, server>>

\* a variant of Drop for readers that release the flag in a finally block
Drop_release ==
    /\ call = "idle"
    /\ reader.pc \in {"new", "Y1", "Y2"}
    /\ reader' = [reader EXCEPT !.pc = "closed"]
    /\ generating' = FALSE
    /\ outcome' = Outcome("dropped", 0, <<>>, "", <<>>)
    /\ UNCHANGED <<buffer, overview_fmt, wire, closed, sent, stack, call, wrapper,
                   yielded, srv, ncalls, api, server, asked>>

\* the caller lets go of a generator it has not exhausted: it is closed at
\* its yield (or unstarted), where no cleanup code runs
Drop ==
    /\ call = "idle"
    /\ reader.pc \in {"new", "Y1", "Y2"}
    /\ reader' = [reader EXCEPT !.pc = "closed"]
    /\ outcome' = Outcome("dropped", 0, <<>>, "", <<>>)
    /\ UNCHANGED <<buffer, generating, overview_fmt, wire, closed, sent, stack, call, wrapper,
                   yielded, srv, ncalls, api, server, asked>>

Next ==
    \/ CallCommand
    \/ CallWrapper
    \/ StatusLine
    \/ CommandRecv
    \/ Info
    \/ Next_
    \/ ReaderStep
    \/ ReaderRecv
    \/ Drop

Spec == Init /\ [][Next]_vars

(***************************************************************************)
(* NNTPClient.post.  The caller's headers and body are kept in the wrapper *)
(* record of the call; the blocks post() hands to sendall() are recorded   *)
(* in `sent` as <<"sendall", bytes>>.                                      *)
(***************************************************************************)
NUL == 0
MSG_ID == <<60, 49, 62, 32, 111, 107>>
BODY_A == <<97, LF>>
BODY_DOT == <<DOT, 97, CR, LF, 98>>
BODY_NUL == <<97, LF, 98, NUL, LF, 99, LF>>
BODY_CR == <<97, CR, 98, LF, 99, LF>>
\* the bodies and header mappings a caller posts
\* ".\n.\r\n.": three lines of a single "."
BODY_TERM == <<DOT, LF, DOT, CR, LF, DOT>>
PostBodies == {<<>>, BODY_A, BODY_DOT, BODY_NUL, BODY_CR, BODY_TERM}
PostHeaders == {<<>>, << <<<<83>>, <<120>>>> >>}

\* utils._unparse_header and utils.unparse_headers
unparse_header(name, value) == name \o <<58, 32>> \o value \o EOL
RECURSIVE unparse_all(_)
unparse_all(hdrs) ==
    IF hdrs = <<>> THEN <<>>
    ELSE unparse_header(hdrs[1][1], hdrs[1][2]) \o unparse_all(Tail(hdrs))
unparse_headers(hdrs) == unparse_all(hdrs) \o EOL

\* io.BytesIO(body) iterated: the lines of body, each up to and with its LF
RECURSIVE BytesIOLines(_)
BytesIOLines(body) ==
    IF body = <<>> THEN <<>>
    ELSE LET i == Find(body, <<LF>>, 0)
         IN IF i < 0 THEN <<body>>
            ELSE <<Slice(body, 0, i + 1)>> \o BytesIOLines(Slice(body, i + 1, Len(body)))

EndsWith(s, t) == Len(s) >= Len(t) /\ SubSeq(s, Len(s) - Len(t) + 1, Len(s)) = t

\* a variant of PostLine without the dot-stuffing
PostLine_nostuff(line) ==
    IF EndsWith(line, EOL) THEN Slice(line, 0, Len(line) - 2)
    ELSE IF EndsWith(line, <<LF>>) THEN Slice(line, 0, Len(line) - 1)
    ELSE line

\* one pass of post()'s loop over the body: the line as it is to be written
PostLine(line) ==
    LET stuffed == IF StartsWith(line, <<DOT>>) THEN <<DOT>> \o line ELSE line
    IN IF EndsWith(stuffed, EOL) THEN Slice(stuffed, 0, Len(stuffed) - 2)
       ELSE IF EndsWith(stuffed, <<LF>>) THEN Slice(stuffed, 0, Len(stuffed) - 1)
       ELSE stuffed

Illegal(line) == \E k \in 1..Len(line) : line[k] \in {NUL, CR}

\* the loop over the body: what it writes, and whether it stopped at an
\* illegal line
RECURSIVE PostLoop(_)
PostLoop(lines) ==
    IF lines = <<>> THEN [writes |-> <<>>, illegal |-> FALSE]
    ELSE LET line == PostLine(Head(lines))
             rest == PostLoop(Tail(lines))
         IN IF Illegal(line) THEN [writes |-> <<>>, illegal |-> TRUE]
            ELSE [writes |-> <<line \o EOL>> \o rest.writes, illegal |-> rest.illegal]

\* a variant of PostWrites for a post() that leaves the terminator to the caller
PostWrites_open(headers, body) ==
    <<unparse_headers(headers)>> \o PostLoop(BytesIOLines(body)).writes

\* what post() writes once POST was answered 340
PostWrites(headers, body) ==
    <<unparse_headers(headers)>> \o PostLoop(BytesIOLines(body)).writes \o <<TERMINATOR>>

RECURSIVE Sendalls(_)
Sendalls(blocks) ==
    IF blocks = <<>> THEN <<>> ELSE <<<<"sendall", Head(blocks)>>>> \o Sendalls(Tail(blocks))

\* what the server may answer to the article it was sent
FinalReplies ==
    {StatusOnly(240, MSG_ID), StatusOnly(240, MSG_OK), StatusOnly(240, <<>>),
     StatusOnly(441, MSG_OK), StatusOnly(503, MSG_OK), StatusOnly(235, MSG_OK)}

\* the end of post(), from the status it reads after the terminator
PostResult(res, illegal) ==
    IF res.kind # "return" THEN res
    ELSE IF illegal THEN RaiseText("NNTPDataError", "Illegal characters found")
    ELSE IF res.code # 240 THEN Raise("NNTPReplyError", res.code, res.message)
    ELSE LET parts == Split1(res.message)
         IN IF parts = <<>> THEN Raise("IndexError", 0, <<>>)
            ELSE IF StartsWith(parts[1], <<60>>) /\ EndsWith(parts[1], <<62>>)
                 THEN Outcome("message_id", 0, <<>>, "", parts[1])
            ELSE Outcome("True", 0, <<>>, "", <<>>)

InitPost ==
    /\ buffer = NewFifo
    /\ generating = FALSE
    /\ overview_fmt = UNSET_FMT
    /\ wire = <<>>
    /\ closed = FALSE
    /\ sent = <<>>
    /\ stack = <<>>
    /\ call = "idle"
    /\ wrapper = NoWrapper
    /\ reader = NoReader
    /\ outcome = NoOutcome
    /\ yielded = <<>>
    /\ srv = StatusOnly(0, <<>>)
    /\ ncalls = 0
    /\ api = "post"
    /\ server \in Servers
    /\ asked = 0

\* the caller calls post(headers, body), which calls command("POST")
PostCall ==
    /\ call = "idle"
    /\ ncalls < MaxPosts
    /\ ncalls' = ncalls + 1
    /\ \E headers \in PostHeaders, body \in PostBodies :
         wrapper' = [name |-> "post", verb |-> "POST", acc |-> <<>>,
                     headers |-> headers, body |-> body, illegal |-> FALSE]
    /\ Send(Frame("POST", ""), closed)
    /\ stack' = <<Frame("POST", "")>>
    /\ call' = "command"
    /\ outcome' = NoOutcome
    /\ UNCHANGED <<buffer, generating, overview_fmt, reader, yielded, api, server>>

\* the end of post() with `out`
PostEnds(out) ==
    /\ outcome' = out
    /\ call' = "idle"
    /\ stack' = <<>>
    /\ wrapper' = NoWrapper

\* status() of the command("POST") of post() finds a line; once command()
\* has returned 340, post() writes the article and waits for the final status
PostStatus ==
    /\ call = "command"
    /\ LET r == FifoReadline(buffer)
           p == OnStatus(stack, status(r.data), generating)
           loop == PostLoop(BytesIOLines(wrapper.body))
       IN /\ r.data # <<>>
          /\ buffer' = r.fifo
          /\ IF ~p.done
             THEN /\ stack' = p.stack \o p.write
                  /\ Send(p.write[1], closed)
                  /\ UNCHANGED <<outcome, call, wrapper>>
             ELSE IF p.out.kind # "return"
             THEN PostEnds(p.out) /\ UNCHANGED <<sent, wire, srv, asked, closed>>
             ELSE IF p.out.code # 340
             THEN /\ PostEnds(Raise("NNTPReplyError", p.out.code, p.out.message))
                  /\ UNCHANGED <<sent, wire, srv, asked, closed>>
             ELSE /\ sent' = sent \o Sendalls(PostWrites(wrapper.headers, wrapper.body))
                  /\ \E rep \in IF closed THEN {Reply(<<>>, <<>>, "none")}
                                ELSE FinalReplies \cup {Reply(<<>>, <<>>, "none")} :
                       /\ wire' = wire \o rep.bytes
                       /\ srv' = rep
                       /\ closed' = (closed \/ rep.bytes = <<>>)
                  /\ wrapper' = [wrapper EXCEPT !.illegal = loop.illegal]
                  /\ stack' = <<>>
                  /\ call' = "final"
                  /\ UNCHANGED <<outcome, asked>>
    /\ UNCHANGED <<generating, overview_fmt, reader, yielded, ncalls, api, server>>

\* the status() that ends post() finds no line: _recv()
PostRecv ==
    /\ call = "final"
    /\ LET r == FifoReadline(buffer)
       IN /\ r.data = <<>>
          /\ \/ /\ wire # <<>>
                /\ \E n \in RecvSizes(wire) :
                     /\ buffer' = FifoWrite(r.fifo, SubSeq(wire, 1, n))
                     /\ wire' = SubSeq(wire, n + 1, Len(wire))
                /\ UNCHANGED <<stack, call, outcome, wrapper, closed>>
             \/ /\ wire = <<>>
                /\ buffer' = r.fifo
                /\ PostEnds(RaiseText("NNTPError", "Failed to read from socket"))
                /\ closed' = TRUE
                /\ UNCHANGED wire
    /\ UNCHANGED <<generating, overview_fmt, sent, reader, yielded, srv, ncalls, api,
                   server, asked>>

\* the status() that ends post() finds a line
PostFinal ==
    /\ call = "final"
    /\ LET r == FifoReadline(buffer)
       IN /\ r.data # <<>>
          /\ buffer' = r.fifo
          /\ PostEnds(PostResult(status(r.data), wrapper.illegal))
    /\ UNCHANGED <<generating, overview_fmt, wire, closed, sent, reader, yielded, srv,
                   ncalls, api, server, asked>>

NextPost ==
    \/ PostCall
    \/ PostStatus
    \/ CommandRecv
    \/ PostRecv
    \/ PostFinal

SpecPost == InitPost /\ [][NextPost]_vars

(***************************************************************************)
(* A BytesFifo on its own: a caller writes a byte stream to `buffer` in    *)
(* chunks of its choosing and calls readline() whenever it likes.  `srv`   *)
(* holds the stream, `wire` what of it is still to be written, `yielded`   *)
(* the lines readline() returned, `outcome` what the last call returned.   *)
(***************************************************************************)
RECURSIVE Strings(_, _)
\* the byte strings over `alphabet` of length up to n
Strings(alphabet, n) ==
    IF n = 0 THEN {<<>>}
    ELSE LET shorter == Strings(alphabet, n - 1)
         IN shorter \cup {Append(t, c) : t \in shorter, c \in alphabet}

Streams == Strings({97, CR, LF}, MaxStream)

InitFifo ==
    /\ buffer = NewFifo
    /\ generating = FALSE
    /\ overview_fmt = UNSET_FMT
    /\ \E stream \in Streams : wire = stream /\ srv = Reply(stream, <<>>, "none")
    /\ closed = FALSE
    /\ sent = <<>>
    /\ stack = <<>>
    /\ call = "idle"
    /\ wrapper = NoWrapper
    /\ reader = NoReader
    /\ outcome = NoOutcome
    /\ yielded = <<>>
    /\ ncalls = 0
    /\ api = "fifo"
    /\ server = "none"
    /\ asked = 0

\* fifo.write(chunk), the chunk being the next bytes of the stream, or empty
WriteChunk ==
    /\ \E n \in 0..Len(wire) :
         /\ n = 0 => buffer.buflist = <<>>
         /\ buffer' = FifoWrite(buffer, SubSeq(wire, 1, n))
         /\ wire' = SubSeq(wire, n + 1, Len(wire))
    /\ outcome' = NoOutcome
    /\ UNCHANGED <<generating, overview_fmt, closed, sent, stack, call, wrapper, reader,
                   yielded, srv, ncalls, api, server, asked>>

\* fifo.readline()
ReadlineCall ==
    /\ LET r == FifoReadline(buffer)
       IN /\ buffer' = r.fifo
          /\ outcome' = Yield(r.data)
          /\ yielded' = IF r.data = <<>> THEN yielded ELSE Append(yielded, r.data)
    /\ UNCHANGED <<generating, overview_fmt, wire, closed, sent, stack, call, wrapper, reader,
                   srv, ncalls, api, server, asked>>

NextFifo ==
    \/ WriteChunk
    \/ ReadlineCall

SpecFifo == InitFifo /\ [][NextFifo]_vars

(***************************************************************************)
(* A YEnc decoder on its own, fed the lines of a yEnc encoding of a byte   *)
(* string one by one.  `srv` holds the plain bytes, `wire` those not yet   *)
(* encoded, `reader.decoder` the decoder, `yielded` what decode() has      *)
(* returned so far, concatenated.  The encoder breaks lines where it       *)
(* likes and escapes, line by line, either the critical bytes only or      *)
(* every byte.                                                             *)
(***************************************************************************)
\* plain bytes that encode to NUL, LF, CR and "=", and one that needs no escape
PlainBytes == {214, 224, 227, 19, 97}
Plains == Strings(PlainBytes, MaxPlain)

\* a byte escaped whether it is critical or not
YEncEscaped(b) == <<EQ, (((b + 42) % 256) + 64) % 256>>
YEncLine(data, all) ==
    (IF all THEN Join([i \in 1..Len(data) |-> YEncEscaped(data[i])]) ELSE YEncEncode(data))
    \o EOL

InitYEnc ==
    /\ buffer = NewFifo
    /\ generating = FALSE
    /\ overview_fmt = UNSET_FMT
    /\ \E plain \in Plains : wire = plain /\ srv = Reply(plain, <<>>, "none")
    /\ closed = FALSE
    /\ sent = <<>>
    /\ stack = <<>>
    /\ call = "idle"
    /\ wrapper = NoWrapper
    /\ reader = [NoReader EXCEPT !.decoder = NewYEnc]
    /\ outcome = NoOutcome
    /\ yielded = <<>>
    /\ ncalls = 0
    /\ api = "yenc"
    /\ server = "none"
    /\ asked = 0

\* decoder.decode(line), the line being the encoding of the next n plain bytes
DecodeLine ==
    /\ \E n \in 0..Len(wire), all \in BOOLEAN :
         LET line == YEncLine(SubSeq(wire, 1, n), all)
             r == YEncDecode(reader.decoder, line)
         IN /\ n = 0 => ~all /\ wire # <<>> /\ outcome.value # <<EOL>>
            /\ reader' = [reader EXCEPT !.decoder = r.dec]
            /\ yielded' = yielded \o r.data
            /\ outcome' = Yield(<<line>>)
            /\ wire' = SubSeq(wire, n + 1, Len(wire))
    /\ UNCHANGED <<buffer, generating, overview_fmt, closed, sent, stack, call, wrapper,
                   srv, ncalls, api, server, asked>>

NextYEnc == DecodeLine

SpecYEnc == InitYEnc /\ [][NextYEnc]_vars

(***************************************************************************)
(* The context manager: a `with NNTPClient(...) as client:` block whose    *)
(* body may leave a reader suspended, call close() and call quit(), and    *)
(* the __exit__ that follows it.  Here `closed` is the state of the        *)
(* client's socket, `api` is where the with statement is ("with": in the   *)
(* body, "exit": in __exit__, "left": past it) and `outcome` is how the    *)
(* body's last call, and at last the with statement, ended.  A server that *)
(* closes the connection is an empty reply: recv() returns zero bytes.     *)
(***************************************************************************)
InitExit ==
    /\ buffer = NewFifo
    /\ generating = FALSE
    /\ overview_fmt = UNSET_FMT
    /\ wire = <<>>
    /\ closed = FALSE
    /\ sent = <<>>
    /\ stack = <<>>
    /\ call = "idle"
    /\ wrapper = NoWrapper
    /\ reader = NoReader
    /\ outcome = NoOutcome
    /\ yielded = <<>>
    /\ srv = StatusOnly(0, <<>>)
    /\ ncalls = 0
    /\ api = "with"
    /\ server \in Servers
    /\ asked = 0

\* socket.sendall on a socket that socket.close() has closed
BadFileDescriptor == RaiseText("OSError", "Bad file descriptor")
\* __exit__ returns False: the with statement ends without an exception of
\* its own
ExitFalse == Outcome("False", 0, <<>>, "", <<>>)

\* a variant of QuitEnds for an __exit__ that catches every exception
QuitEnds_catchall(out, exiting) ==
    /\ call' = "idle"
    /\ stack' = <<>>
    /\ wrapper' = NoWrapper
    /\ closed' = (closed \/ out.kind = "return" \/ exiting)
    /\ outcome' = IF ~exiting THEN out
                  ELSE IF out.kind \in {"return", "OSError"} THEN ExitFalse ELSE out
    /\ api' = IF exiting THEN "left" ELSE "with"

\* quit() ends with `out` ("return": it got 205, closed the socket and
\* returned None).  In the body the caller has the outcome; in __exit__
\* (exiting) an NNTPError closes the socket and is raised again, any other
\* exception goes through, and a return makes __exit__ return False
QuitEnds(out, exiting) ==
    /\ call' = "idle"
    /\ stack' = <<>>
    /\ wrapper' = NoWrapper
    /\ closed' = (closed \/ out.kind = "return" \/ (exiting /\ IsNNTPError(out.kind)))
    /\ outcome' = IF exiting /\ out.kind = "return" THEN ExitFalse ELSE out
    /\ api' = IF exiting THEN "left" ELSE "with"

\* quit() calls command("QUIT"): the check of the flag, then sendall
QuitBegins(exiting) ==
    IF SyncCheck(generating)
    THEN QuitEnds(SyncError, exiting) /\ UNCHANGED <<sent, wire, srv, asked>>
    ELSE IF closed
    THEN QuitEnds(BadFileDescriptor, exiting) /\ UNCHANGED <<sent, wire, srv, asked>>
    ELSE /\ \E rep \in ServerReplies(server, "QUIT", asked) :
              /\ sent' = Append(sent, CmdLine("QUIT", ""))
              /\ wire' = wire \o rep.bytes
              /\ srv' = rep
              /\ asked' = IF rep = CHALLENGE THEN asked + 1 ELSE asked
         /\ stack' = <<Frame("QUIT", "")>>
         /\ call' = "command"
         /\ wrapper' = [name |-> "quit", verb |-> "QUIT", acc |-> <<>>]
         /\ outcome' = NoOutcome
         /\ api' = IF exiting THEN "exit" ELSE "with"
         /\ UNCHANGED closed

\* the body sends LIST, creates the reader of the response and advances it
\* to its first line, where it keeps it
BodyReader ==
    /\ api = "with" /\ call = "idle"
    /\ ncalls < MaxCalls
    /\ ~closed /\ ~SyncCheck(generating)
    /\ ncalls' = ncalls + 1
    /\ LET rep == Reply(StatusBytes(215, MSG_OK) \o Encoded(<<LINE_A>>, "plain"),
                        <<LINE_A>>, "plain")
           line == FifoReadline(FifoWrite(buffer, rep.bytes))
           run == Advance(Start(NewReader(status(line.data).message, FALSE, NoWrapper, rep)),
                          line.fifo, TRUE)
       IN /\ sent' = Append(sent, CmdLine("LIST", ""))
          /\ srv' = rep
          /\ buffer' = run.buffer
          /\ reader' = run.reader
          /\ generating' = run.gen
          /\ outcome' = run.out
          /\ yielded' = <<Decode(run.out.value)>>
    /\ UNCHANGED <<overview_fmt, wire, closed, stack, call, wrapper, api, server, asked>>

\* the body calls close()
BodyClose ==
    /\ api = "with" /\ call = "idle"
    /\ ncalls < MaxCalls
    /\ ncalls' = ncalls + 1
    /\ closed' = TRUE
    /\ outcome' = Outcome("None", 0, <<>>, "", <<>>)
    /\ UNCHANGED <<buffer, generating, overview_fmt, wire, sent, stack, call, wrapper, reader,
                   yielded, srv, api, server, asked>>

\* the body calls quit()
BodyQuit ==
    /\ api = "with" /\ call = "idle"
    /\ ncalls < MaxCalls
    /\ ncalls' = ncalls + 1
    /\ QuitBegins(FALSE)
    /\ UNCHANGED <<buffer, generating, overview_fmt, reader, yielded, server>>

\* the body is left, normally or by an exception: __exit__ calls quit()
Exit ==
    /\ api = "with" /\ call = "idle"
    /\ QuitBegins(TRUE)
    /\ UNCHANGED <<buffer, generating, overview_fmt, reader, yielded, ncalls, server>>

\* status() of quit()'s command finds no line: _recv()
QuitRecv ==
    /\ call = "command"
    /\ LET r == FifoReadline(buffer)
       IN /\ r.data = <<>>
          /\ \/ /\ wire # <<>>
                /\ \E n \in RecvSizes(wire) :
                     /\ buffer' = FifoWrite(r.fifo, SubSeq(wire, 1, n))
                     /\ wire' = SubSeq(wire, n + 1, Len(wire))
                /\ UNCHANGED <<stack, call, outcome, wrapper, closed, api>>
             \/ /\ wire = <<>>
                /\ buffer' = r.fifo
                /\ QuitEnds(RaiseText("NNTPError", "Failed to read from socket"), api = "exit")
                /\ UNCHANGED wire
    /\ UNCHANGED <<generating, overview_fmt, sent, reader, yielded, srv, ncalls, server, asked>>

\* status() of quit()'s command finds a line: the handler of command(),
\* then quit()'s check of the code and its socket.close()
QuitStatus ==
    /\ call = "command"
    /\ LET r == FifoReadline(buffer)
           p == OnStatus(stack, status(r.data), generating)
       IN /\ r.data # <<>>
          /\ buffer' = r.fifo
          /\ IF ~p.done
             THEN /\ stack' = p.stack \o p.write
                  /\ Send(p.write[1], closed)
                  /\ UNCHANGED <<outcome, call, wrapper, api>>
             ELSE /\ QuitEnds(IF p.out.kind = "return" /\ p.out.code # 205
                              THEN Raise("NNTPReplyError", p.out.code, p.out.message)
                              ELSE p.out, api = "exit")
                  /\ UNCHANGED <<sent, wire, srv, asked>>
    /\ UNCHANGED <<generating, overview_fmt, reader, yielded, ncalls, server>>

NextExit ==
    \/ BodyReader
    \/ BodyClose
    \/ BodyQuit
    \/ Exit
    \/ QuitRecv
    \/ QuitStatus

SpecExit == InitExit /\ [][NextExit]_vars

(***************************************************************************)
(* HeaderDict on its own: a caller that sets, gets and deletes headers.    *)
(* Here `yielded` is the proxy OrderedDict as the sequence of its          *)
(* <<key, value>> items in iteration order, `wrapper` is the call just     *)
(* made, `outcome` is how it ended and `ncalls` counts the calls.  Names   *)
(* are strings of code points over a, A, s, S and U+00DF (sharp s).        *)
(***************************************************************************)
SHARP_S == 223
\* str.casefold() on the alphabet of the model
RECURSIVE casefold(_)
casefold(name) ==
    IF name = <<>> THEN <<>>
    ELSE LET c == Head(name)
             f == IF c = 65 THEN <<97>> ELSE IF c = 83 THEN <<115>>
                  ELSE IF c = SHARP_S THEN <<115, 115>> ELSE <<c>>
         IN f \o casefold(Tail(name))

\* str.lower() on the same alphabet
lower(name) ==
    [i \in 1..Len(name) |-> IF name[i] = 65 THEN 97 ELSE IF name[i] = 83 THEN 115 ELSE name[i]]

\* a variant of HeaderName.__eq__ that compares lower-cased names
HeaderNameEq_lower(a, b) == lower(a) = lower(b)

\* HeaderName.__eq__ (and __hash__, which agrees with it)
HeaderNameEq(a, b) == casefold(a) = casefold(b)

HeaderNames == {<<97>>, <<65>>, <<115, 115>>, <<83, 115>>, <<SHARP_S>>, <<115>>}
HeaderValues == {<<49>>, <<50>>}

\* the position of the item of OrderedDict d whose key equals k, 0 if none
Lookup(d, k) ==
    IF \E i \in 1..Len(d) : HeaderNameEq(d[i][1], k)
    THEN CHOOSE i \in 1..Len(d) : HeaderNameEq(d[i][1], k)
    ELSE 0

KeyError(k) == Outcome("KeyError", 0, <<>>, "", k)
DictCall(name, key, value) == [name |-> name, verb |-> "", acc |-> <<key, value>>]

InitHeaderDict ==
    /\ buffer = NewFifo
    /\ generating = FALSE
    /\ overview_fmt = UNSET_FMT
    /\ wire = <<>>
    /\ closed = FALSE
    /\ sent = <<>>
    /\ stack = <<>>
    /\ call = "idle"
    /\ wrapper = NoWrapper
    /\ reader = NoReader
    /\ outcome = NoOutcome
    /\ yielded = <<>>
    /\ srv = StatusOnly(0, <<>>)
    /\ ncalls = 0
    /\ api = "headerdict"
    /\ server = "none"
    /\ asked = 0

\* HeaderDict.__setitem__: an equal key keeps its place and its spelling
SetItem ==
    /\ ncalls < MaxOps
    /\ ncalls' = ncalls + 1
    /\ \E k \in HeaderNames, v \in HeaderValues :
         LET i == Lookup(yielded, k)
         IN /\ yielded' = IF i = 0 THEN Append(yielded, <<k, v>>)
                          ELSE [yielded EXCEPT ![i] = <<yielded[i][1], v>>]
            /\ wrapper' = DictCall("__setitem__", k, v)
            /\ outcome' = Outcome("None", 0, <<>>, "", <<>>)
    /\ UNCHANGED <<buffer, generating, overview_fmt, wire, closed, sent, stack, call, reader,
                   srv, api, server, asked>>

\* HeaderDict.__getitem__
GetItem ==
    /\ ncalls < MaxOps
    /\ ncalls' = ncalls + 1
    /\ \E k \in HeaderNames :
         LET i == Lookup(yielded, k)
         IN /\ wrapper' = DictCall("__getitem__", k, <<>>)
            /\ outcome' = IF i = 0 THEN KeyError(k) ELSE Yield(yielded[i][2])
    /\ UNCHANGED <<buffer, generating, overview_fmt, wire, closed, sent, stack, call, reader,
                   yielded, srv, api, server, asked>>

\* HeaderDict.__delitem__
DelItem ==
    /\ ncalls < MaxOps
    /\ ncalls' = ncalls + 1
    /\ \E k \in HeaderNames :
         LET i == Lookup(yielded, k)
         IN /\ wrapper' = DictCall("__delitem__", k, <<>>)
            /\ yielded' = IF i = 0 THEN yielded
                          ELSE SubSeq(yielded, 1, i - 1) \o SubSeq(yielded, i + 1, Len(yielded))
            /\ outcome' = IF i = 0 THEN KeyError(k) ELSE Outcome("None", 0, <<>>, "", <<>>)
    /\ UNCHANGED <<buffer, generating, overview_fmt, wire, closed, sent, stack, call, reader,
                   srv, api, server, asked>>

NextHeaderDict ==
    \/ SetItem
    \/ GetItem
    \/ DelItem

SpecHeaderDict == InitHeaderDict /\ [][NextHeaderDict]_vars

(***************************************************************************)
(* utils.parse_headers on its own, pulling lines from an iterator.  Here   *)
(* srv.lines is the input, `wire` the lines the iterator has not handed    *)
(* out yet, `yielded` the list hdrs, `call` is "parse" while the loop runs *)
(* and `outcome` is what parse_headers came to: the items of the           *)
(* HeaderDict it returned, in order, or the ValueError it raised.          *)
(***************************************************************************)
COLON == 58
\* "A:1", "a: 2\r\n", " x \r\n" (a continuation), "\r\n", "", " \r\n" (a
\* continuation of whitespace only) and "b" (no colon)
HeaderLines ==
    {<<65, COLON, 49>>, <<97, COLON, 32, 50, CR, LF>>, <<32, 120, 32, CR, LF>>,
     <<CR, LF>>, <<>>, <<32, CR, LF>>, <<98>>}
HeaderInputs == UNION {[1..n -> HeaderLines] : n \in 0..MaxLines}

\* a variant of parse_header whose continuation is the line without its
\* leading whitespace
parse_header_lstrip(line) ==
    LET i == Find(line, <<COLON>>, 0)
    IN IF line = <<>> \/ line = <<CR, LF>> THEN [t |-> "None"]
       ELSE IF line[1] \in {32, 9} THEN [t |-> "str", s |-> Strip(line)]
       ELSE IF i < 0 THEN [t |-> "ValueError"]
       ELSE [t |-> "tuple", name |-> Strip(SubSeq(line, 1, i)),
             value |-> Strip(SubSeq(line, i + 2, Len(line)))]

\* utils._parse_header: None, a continuation (str) or a (name, value) tuple
parse_header(line) ==
    LET i == Find(line, <<COLON>>, 0)
    IN IF line = <<>> \/ line = <<CR, LF>> THEN [t |-> "None"]
       ELSE IF line[1] \in {32, 9} THEN [t |-> "str", s |-> RStrip(line)]
       ELSE IF i < 0 THEN [t |-> "ValueError"]
       ELSE [t |-> "tuple", name |-> Strip(SubSeq(line, 1, i)),
             value |-> Strip(SubSeq(line, i + 2, Len(line)))]

\* HeaderDict(hdrs): the items set one after the other
RECURSIVE HeaderDictOf(_, _)
HeaderDictOf(pairs, d) ==
    IF pairs = <<>> THEN d
    ELSE LET i == Lookup(d, Head(pairs)[1])
         IN HeaderDictOf(Tail(pairs),
                         IF i = 0 THEN Append(d, Head(pairs))
                         ELSE [d EXCEPT ![i] = <<d[i][1], Head(pairs)[2]>>])

InitHeaders ==
    /\ buffer = NewFifo
    /\ generating = FALSE
    /\ overview_fmt = UNSET_FMT
    /\ \E input \in HeaderInputs : wire = input /\ srv = Reply(<<>>, input, "none")
    /\ closed = FALSE
    /\ sent = <<>>
    /\ stack = <<>>
    /\ call = "parse"
    /\ wrapper = NoWrapper
    /\ reader = NoReader
    /\ outcome = NoOutcome
    /\ yielded = <<>>
    /\ ncalls = 0
    /\ api = "parse_headers"
    /\ server = "none"
    /\ asked = 0

\* one turn of `for line in obj` in parse_headers, and the return after it
ParseLine ==
    /\ call = "parse"
    /\ LET hdr == parse_header(Head(wire))
           done == Outcome("HeaderDict", 0, <<>>, "", HeaderDictOf(yielded, <<>>))
           n == Len(yielded)
       IN IF wire = <<>>
          THEN /\ outcome' = done /\ call' = "idle"
               /\ UNCHANGED <<wire, yielded>>
          ELSE /\ wire' = Tail(wire)
               /\ CASE hdr.t = "ValueError" ->
                         /\ outcome' = RaiseText("ValueError", "not enough values to unpack")
                         /\ call' = "idle"
                         /\ UNCHANGED yielded
                    [] hdr.t = "None" \/ (hdr.t = "str" /\ hdr.s = <<>>) ->
                         /\ outcome' = done /\ call' = "idle"
                         /\ UNCHANGED yielded
                    [] hdr.t = "str" /\ hdr.s # <<>> ->
                         IF yielded = <<>>
                         THEN /\ outcome' = RaiseText("ValueError",
                                                      "First header is a continuation")
                              /\ call' = "idle"
                              /\ UNCHANGED yielded
                         ELSE /\ yielded' = [yielded EXCEPT ![n] =
                                                <<yielded[n][1], yielded[n][2] \o hdr.s>>]
                              /\ UNCHANGED <<outcome, call>>
                    [] OTHER ->
                         /\ yielded' = Append(yielded, <<hdr.name, hdr.value>>)
                         /\ UNCHANGED <<outcome, call>>
    /\ UNCHANGED <<buffer, generating, overview_fmt, closed, sent, stack, wrapper, reader,
                   srv, ncalls, api, server, asked>>

NextHeaders == ParseLine

SpecHeaders == InitHeaders /\ [][NextHeaders]_vars

(***************************************************************************)
(* yenc.trailer_crc32 on its own.  Here `wire` is the trailer it is given  *)
(* and `outcome` what it returned: Yield(value) with the value as four     *)
(* bytes, most significant first, or the outcome "None".                   *)
(***************************************************************************)
\* "crc", "crc32", "CRC32", "Crc" and "pcrc32", each with "="
TrailerKeys ==
    {<<99, 114, 99, EQ>>, <<99, 114, 99, 51, 50, EQ>>, <<67, 82, 67, 51, 50, EQ>>,
     <<67, 114, 99, EQ>>, <<112, 99, 114, 99, 51, 50, EQ>>}
\* "ded29f4f", "DED29F4F", "0000000g" and "1234567"
TrailerHex ==
    {<<100, 101, 100, 50, 57, 102, 52, 102>>, <<68, 69, 68, 50, 57, 70, 52, 70>>,
     <<48, 48, 48, 48, 48, 48, 48, 103>>, <<49, 50, 51, 52, 53, 54, 55>>}
\* what comes before a field: nothing, " ", "\t ", "x" and "x "
TrailerGaps == {<<>>, <<32>>, <<9, 32>>, <<120>>, <<120, 32>>}
TrailerFields == {g \o k \o h : g \in TrailerGaps, k \in TrailerKeys, h \in TrailerHex}
Trailers == TrailerFields \cup {f \o <<32>> \o k \o h : f \in TrailerFields,
                                     k \in {<<99, 114, 99, 51, 50, EQ>>},
                                     h \in {<<49, 50, 51, 52, 53, 54, 55, 56>>}}

InitTrailer ==
    /\ buffer = NewFifo
    /\ generating = FALSE
    /\ overview_fmt = UNSET_FMT
    /\ wire \in Trailers
    /\ closed = FALSE
    /\ sent = <<>>
    /\ stack = <<>>
    /\ call = "trailer_crc32"
    /\ wrapper = NoWrapper
    /\ reader = NoReader
    /\ outcome = NoOutcome
    /\ yielded = <<>>
    /\ srv = StatusOnly(0, <<>>)
    /\ ncalls = 0
    /\ api = "trailer_crc32"
    /\ server = "none"
    /\ asked = 0

\* trailer_crc32(trailer) returns
TrailerCrc32 ==
    /\ call = "trailer_crc32"
    /\ call' = "idle"
    /\ LET t == trailer_crc32(wire)
       IN outcome' = IF t.found THEN Yield(t.value) ELSE Outcome("None", 0, <<>>, "", <<>>)
    /\ UNCHANGED <<buffer, generating, overview_fmt, wire, closed, sent, stack, wrapper, reader,
                   yielded, srv, ncalls, api, server, asked>>

NextTrailer == TrailerCrc32

SpecTrailer == InitTrailer /\ [][NextTrailer]_vars

(***************************************************************************)
(* A reader on its own: a response body in one of the encodings, followed  *)
(* on the wire by bytes that belong to what the server sends next, read    *)
(* line by line by a caller that advances the reader (Next_, ReaderStep,   *)
(* ReaderRecv).  srv.lines are the body's lines before dot-stuffing,       *)
(* srv.bytes the body as sent with what follows it.                        *)
(***************************************************************************)
\* ". \r\n", a line that is dot-stuffed on the wire and no terminator
LINE_D == <<DOT, 32, CR, LF>>
\* a line that starts with a byte that is not ASCII
LINE_E == <<132, CR, LF>>
PlainBodies == UNION {[1..n -> {LINE_A, LINE_B, LINE_D, LINE_E}] : n \in 0..MaxBody}
InitReader ==
    /\ buffer = NewFifo
    /\ generating = FALSE
    /\ overview_fmt = UNSET_FMT
    /\ \E lines \in PlainBodies, after \in Followers,
          enc \in Encodings("XZHDR") \cup YzEncodings :
         /\ srv = Reply(Encoded(lines, enc) \o after, lines, enc)
         /\ wire = srv.bytes
         /\ reader = NewReader(IF enc \in {"gzin", "gzout"} THEN MSG_GZIP ELSE MSG_OK,
                                enc \in YzEncodings, NoWrapper, srv)
    /\ closed = FALSE
    /\ sent = <<>>
    /\ stack = <<>>
    /\ call = "idle"
    /\ wrapper = NoWrapper
    /\ outcome = NoOutcome
    /\ yielded = <<>>
    /\ ncalls = 0
    /\ api = "info"
    /\ server = "none"
    /\ asked = 0

NextReader ==
    \/ Next_
    \/ ReaderStep
    \/ ReaderRecv

SpecReader == InitReader /\ [][NextReader]_vars

(***************************************************************************)
(* NNTPClient.article and NNTPClient.body.  The caller calls article() or  *)
(* body() once, with decode None, True or False.  For article(),           *)
(* command("ARTICLE") reads the status, parse_headers() advances a first   *)
(* info() reader until it returns, _body() advances a second _info()       *)
(* reader to its end; for body(), command("BODY") reads the status and     *)
(* _body() advances the one reader.  `wrapper` holds the call and its      *)
(* locals, also after it has ended: arg is the decode argument, hdrs the   *)
(* (name, value) pairs parsed so far, acc the body so far, decode the      *)
(* local of _body ("None", "True", "False") and decoder its YEnc.          *)
(* srv.lines is the article the server sent.                               *)
(***************************************************************************)
SUBJECT == <<115, 117, 98, 106, 101, 99, 116>>
YENC == <<121, 69, 110, 99>>
Y_LINE == <<61, 121>>

InitArticle ==
    /\ buffer = NewFifo
    /\ generating = FALSE
    /\ overview_fmt = UNSET_FMT
    /\ wire = <<>>
    /\ closed = FALSE
    /\ sent = <<>>
    /\ stack = <<>>
    /\ call = "idle"
    /\ wrapper = NoWrapper
    /\ reader = NoReader
    /\ outcome = NoOutcome
    /\ yielded = <<>>
    /\ srv = StatusOnly(0, <<>>)
    /\ ncalls = 0
    /\ api = "article"
    /\ server \in Servers
    /\ asked = 0

\* the caller calls article(decode=arg) or body(decode=arg), which calls
\* command("ARTICLE") or command("BODY")
ArticleCall ==
    /\ call = "idle"
    /\ ncalls = 0
    /\ ncalls' = ncalls + 1
    /\ \E name \in {"article", "body"}, arg \in {"None", "True", "False"} :
         LET verb == IF name = "article" THEN "ARTICLE" ELSE "BODY"
         IN /\ wrapper' = [name |-> name, verb |-> verb, arg |-> arg, acc |-> <<>>,
                           hdrs |-> <<>>, decode |-> arg, decoder |-> NewYEnc,
                           message |-> <<>>]
            /\ Send(Frame(verb, ""), closed)
            /\ stack' = <<Frame(verb, "")>>
    /\ call' = "command"
    /\ outcome' = NoOutcome
    /\ UNCHANGED <<buffer, generating, overview_fmt, reader, yielded, api, server>>

\* the end of article() with `out`
ArticleEnds(out) ==
    /\ outcome' = out
    /\ call' = "idle"
    /\ stack' = <<>>

\* article() and body() after command() returned: the code and, in
\* article(), the article number
ArticleChecks(name, res) ==
    LET parts == Split1(res.message)
    IN IF name = "body"
       THEN IF res.code # 222 THEN Raise("NNTPReplyError", res.code, res.message) ELSE res
       ELSE IF res.code # 220 THEN Raise("NNTPReplyError", res.code, res.message)
       ELSE IF parts = <<>> THEN Raise("IndexError", 0, <<>>)
       ELSE IF ~IsInt(parts[1]) THEN Raise("NNTPProtocolError", 0, res.message)
       ELSE res

\* status() of the command() of article() or body() finds a line; once
\* command() has returned 220 with an article number, parse_headers() starts
\* the first reader of article(); once it has returned 222, _body() starts
\* the reader of body()
ArticleStatus ==
    /\ call = "command"
    /\ LET r == FifoReadline(buffer)
           p == OnStatus(stack, status(r.data), generating)
           chk == ArticleChecks(wrapper.name, p.out)
       IN /\ r.data # <<>>
          /\ buffer' = r.fifo
          /\ IF ~p.done
             THEN /\ stack' = p.stack \o p.write
                  /\ Send(p.write[1], closed)
                  /\ UNCHANGED <<outcome, call, wrapper, reader, generating>>
             ELSE IF p.out.kind # "return"
             THEN /\ ArticleEnds(p.out)
                  /\ UNCHANGED <<sent, wire, srv, asked, closed, reader, generating, wrapper>>
             ELSE IF chk.kind # "return"
             THEN /\ ArticleEnds(chk)
                  /\ UNCHANGED <<sent, wire, srv, asked, closed, reader, generating, wrapper>>
             ELSE /\ reader' = Start(NewReader(p.out.message, FALSE, NoWrapper, srv))
                  /\ generating' = TRUE
                  /\ wrapper' = [wrapper EXCEPT !.message = p.out.message]
                  /\ stack' = <<>>
                  /\ call' = IF wrapper.name = "article" THEN "headers" ELSE "body"
                  /\ UNCHANGED <<outcome, sent, wire, srv, asked, closed>>
    /\ UNCHANGED <<overview_fmt, yielded, ncalls, api, server>>

\* parse_headers() has returned `hdrs`: article() sets decode and _body()
\* starts the second reader; gen is the flag as the first reader left it
ArticleBody(hdrs, gen) ==
    LET d == HeaderDictOf(hdrs, <<>>)
        i == Lookup(d, SUBJECT)
        subject == IF i = 0 THEN <<>> ELSE d[i][2]
    IN /\ wrapper' = [wrapper EXCEPT !.hdrs = d,
                                     !.decode = IF wrapper.arg = "None"
                                                   /\ Contains(subject, YENC)
                                                THEN "True" ELSE wrapper.arg]
       /\ reader' = Start(NewReader(wrapper.message, FALSE, NoWrapper, srv))
       /\ generating' = TRUE
       /\ call' = "body"
       /\ UNCHANGED <<outcome, stack>>

\* one turn of the loop of parse_headers() for the line the reader yielded
ArticleHeaderLine(run) ==
    LET hdr == parse_header(Decode(run.out.value))
        hdrs == wrapper.hdrs
        n == Len(hdrs)
        abandoned == [run.reader EXCEPT !.pc = "closed"]
    IN CASE hdr.t = "ValueError" ->
              /\ ArticleEnds(RaiseText("ValueError", "not enough values to unpack"))
              /\ reader' = abandoned
              /\ generating' = run.gen
              /\ UNCHANGED wrapper
         [] hdr.t = "None" \/ (hdr.t = "str" /\ hdr.s = <<>>) ->
              ArticleBody(hdrs, run.gen)
         [] hdr.t = "str" /\ hdr.s # <<>> ->
              IF hdrs = <<>>
              THEN /\ ArticleEnds(RaiseText("ValueError", "First header is a continuation"))
                   /\ reader' = abandoned
                   /\ generating' = run.gen
                   /\ UNCHANGED wrapper
              ELSE /\ wrapper' = [wrapper EXCEPT !.hdrs[n] = <<hdrs[n][1], hdrs[n][2] \o hdr.s>>]
                   /\ reader' = run.reader
                   /\ generating' = run.gen
                   /\ UNCHANGED <<outcome, call, stack>>
         [] OTHER ->
              /\ wrapper' = [wrapper EXCEPT !.hdrs = Append(hdrs, <<hdr.name, hdr.value>>)]
              /\ reader' = run.reader
              /\ generating' = run.gen
              /\ UNCHANGED <<outcome, call, stack>>

\* a variant of the loop of _body() that keeps the blank lines it collected
\* before the first "=y" line
ArticleBodyLine_keep(line) ==
    LET decode == IF wrapper.decode # "None" THEN wrapper.decode
                  ELSE IF StartsWith(line, Y_LINE) THEN "True"
                  ELSE IF line # EOL THEN "False"
                  ELSE "None"
        dd == YEncDecode(wrapper.decoder, line)
    IN IF decode = "True"
       THEN IF StartsWith(line, Y_LINE)
            THEN [wrapper EXCEPT !.decode = decode]
            ELSE [wrapper EXCEPT !.decode = decode, !.acc = wrapper.acc \o dd.data,
                                 !.decoder = dd.dec]
       ELSE [wrapper EXCEPT !.decode = decode, !.acc = wrapper.acc \o line]

\* one turn of the loop of _body() for `line`
ArticleBodyLine(line) ==
    LET decode == IF wrapper.decode # "None" THEN wrapper.decode
                  ELSE IF StartsWith(line, Y_LINE) THEN "True"
                  ELSE IF line # EOL THEN "False"
                  ELSE "None"
        body == IF wrapper.decode = "None" /\ decode = "True" THEN <<>> ELSE wrapper.acc
        dd == YEncDecode(wrapper.decoder, line)
    IN IF decode = "True"
       THEN IF StartsWith(line, Y_LINE)
            THEN [wrapper EXCEPT !.decode = decode, !.acc = body]
            ELSE [wrapper EXCEPT !.decode = decode, !.acc = body \o dd.data,
                                 !.decoder = dd.dec]
       ELSE [wrapper EXCEPT !.decode = decode, !.acc = body \o line]

\* the reader article() is advancing gets to its next yield, to its end or
\* to an error
ArticleLine ==
    /\ call \in {"headers", "body"}
    /\ LET run == Advance(reader, buffer, generating)
       IN /\ run.ev # "need"
          /\ buffer' = run.buffer
          /\ CASE run.ev = "fail" ->
                    /\ ArticleEnds(run.out)
                    /\ reader' = run.reader
                    /\ generating' = run.gen
                    /\ UNCHANGED wrapper
               [] run.ev = "yield" /\ call = "headers" -> ArticleHeaderLine(run)
               [] run.ev = "done" /\ call = "headers" -> ArticleBody(wrapper.hdrs, run.gen)
               [] run.ev = "yield" /\ call = "body" ->
                    /\ wrapper' = ArticleBodyLine(run.out.value)
                    /\ reader' = run.reader
                    /\ generating' = run.gen
                    /\ UNCHANGED <<outcome, call, stack>>
               [] OTHER ->
                    /\ ArticleEnds(Outcome(wrapper.name, 0, <<>>, "",
                                           <<wrapper.hdrs, wrapper.acc>>))
                    /\ reader' = run.reader
                    /\ generating' = run.gen
                    /\ UNCHANGED wrapper
    /\ UNCHANGED <<overview_fmt, wire, closed, sent, yielded, srv, ncalls, api, server, asked>>

\* the reader article() is advancing needs more bytes: _recv()
ArticleRecv ==
    /\ call \in {"headers", "body"}
    /\ LET run == Advance(reader, buffer, generating)
       IN /\ run.ev = "need"
          /\ generating' = run.gen
          /\ \/ /\ wire # <<>>
                /\ \E n \in RecvSizes(wire) :
                     /\ buffer' = FifoWrite(run.buffer, SubSeq(wire, 1, n))
                     /\ wire' = SubSeq(wire, n + 1, Len(wire))
                /\ reader' = run.reader
                /\ UNCHANGED <<stack, call, outcome, wrapper, closed>>
             \/ /\ wire = <<>>
                /\ buffer' = run.buffer
                /\ reader' = [run.reader EXCEPT !.pc = "failed"]
                /\ ArticleEnds(RaiseText("NNTPError", "Failed to read from socket"))
                /\ closed' = TRUE
                /\ UNCHANGED <<wire, wrapper>>
    /\ UNCHANGED <<overview_fmt, sent, yielded, srv, ncalls, api, server, asked>>

NextArticle ==
    \/ ArticleCall
    \/ ArticleStatus
    \/ CommandRecv
    \/ ArticleLine
    \/ ArticleRecv

SpecArticle == InitArticle /\ [][NextArticle]_vars

(***************************************************************************)
(* A Fifo under every consuming operation.  The stream is written in       *)
(* chunks as in SpecFifo; read(length), readline() and readuntil(token,    *)
(* size) fall anywhere between the writes.  `yielded` holds the bytes the  *)
(* calls have returned, concatenated, `api` the last operation, `ncalls`   *)
(* the length the last read() was asked for, `outcome` what the last call  *)
(* returned, and `asked` the number of bytes written and read before the   *)
(* stream: none, or one long line that brought pos to just below the       *)
(* discard size.                                                           *)
(***************************************************************************)
\* a line of DISCARD_SIZE - 1 bytes, CR LF included
LongLine == [i \in 1..(DISCARD_SIZE - 1) |-> IF i = DISCARD_SIZE - 2 THEN CR
                                             ELSE IF i = DISCARD_SIZE - 1 THEN LF ELSE 97]

\* the streams written after the long line
Tails == {<<CR, LF, 97>>, <<97, CR, LF>>, <<97, LF, CR>>, <<97, 97, 97>>}

ReadLengths == -1..MaxRead
Tokens == {<<LF>>, EOL}
Sizes == {0, 2}

\* readuntil(token, size): [fifo, found, data]
FifoReaduntil(f, token, size) ==
    LET a == FifoAppend(f)
        i == Find(a.buf, token, a.pos)
    IN IF i < 0
       THEN LET index == Max(Len(token) - 1, size)
                newpos == Max(Len(a.buf) - index, a.pos)
            IN [fifo |-> FifoDiscard([a EXCEPT !.pos = newpos]), found |-> FALSE,
                data |-> Slice(a.buf, a.pos, newpos)]
       ELSE [fifo |-> FifoDiscard([a EXCEPT !.pos = i + Len(token)]), found |-> TRUE,
             data |-> Slice(a.buf, a.pos, i + Len(token))]

InitOps ==
    /\ \E held \in {<<>>, LongLine} :
         /\ buffer = [buf |-> held, buflist |-> <<>>, pos |-> Len(held)]
         /\ asked = Len(held)
         /\ \E stream \in (IF held = <<>> THEN Streams ELSE Tails) :
               wire = stream /\ srv = Reply(stream, <<>>, "none")
    /\ generating = FALSE
    /\ overview_fmt = UNSET_FMT
    /\ closed = FALSE
    /\ sent = <<>>
    /\ stack = <<>>
    /\ call = "idle"
    /\ wrapper = NoWrapper
    /\ reader = NoReader
    /\ outcome = NoOutcome
    /\ yielded = <<>>
    /\ ncalls = 0
    /\ api = "fifo"
    /\ server = "none"

\* what a call that returned `value`, of which `data` are the bytes, leaves
Returned(fifo, data, value) ==
    /\ buffer' = fifo
    /\ outcome' = Outcome("return", 0, <<>>, api', value)
    /\ yielded' = yielded \o data
    /\ UNCHANGED <<generating, overview_fmt, wire, closed, sent, stack, call, wrapper, reader,
                   srv, server, asked>>

\* fifo.read(length)
ReadCall ==
    \E length \in ReadLengths :
       LET r == FifoRead(buffer, length)
       IN api' = "read" /\ ncalls' = length /\ Returned(r.fifo, r.data, r.data)

\* fifo.readline(), among the other operations
ReadlineOp ==
    LET r == FifoReadline(buffer)
    IN api' = "readline" /\ ncalls' = 0 /\ Returned(r.fifo, r.data, r.data)

\* fifo.readuntil(token, size)
ReaduntilCall ==
    \E token \in Tokens, size \in Sizes :
       LET r == FifoReaduntil(buffer, token, size)
       IN api' = "readuntil" /\ ncalls' = 0 /\ Returned(r.fifo, r.data, <<r.found, r.data>>)

\* fifo.write(chunk), among the other operations
WriteOp ==
    /\ \E n \in 1..Len(wire) :
         /\ buffer' = FifoWrite(buffer, SubSeq(wire, 1, n))
         /\ wire' = SubSeq(wire, n + 1, Len(wire))
    /\ api' = "write"
    /\ outcome' = NoOutcome
    /\ UNCHANGED <<generating, overview_fmt, closed, sent, stack, call, wrapper, reader,
                   yielded, srv, ncalls, server, asked>>

NextOps ==
    \/ WriteOp
    \/ ReadCall
    \/ ReadlineOp
    \/ ReaduntilCall

SpecOps == InitOps /\ [][NextOps]_vars

(***************************************************************************)
(* A YEnc decoder fed any bytes, legal encoding or not, cut into chunks    *)
(* anywhere.  `srv` holds the bytes, `wire` those not yet fed,             *)
(* `reader.decoder` the decoder, `outcome` the chunk of the last decode()  *)
(* call and `yielded` what the calls have returned so far, concatenated.   *)
(***************************************************************************)
\* "=", CR, LF, and bytes below 42, between 42 and 106, at 106 and above it
RawBytes == {EQ, CR, LF, NUL, 64, 106, 255}
Raws == Strings(RawBytes, MaxRaw)

InitDecode ==
    /\ buffer = NewFifo
    /\ generating = FALSE
    /\ overview_fmt = UNSET_FMT
    /\ \E raw \in Raws : wire = raw /\ srv = Reply(raw, <<>>, "none")
    /\ closed = FALSE
    /\ sent = <<>>
    /\ stack = <<>>
    /\ call = "idle"
    /\ wrapper = NoWrapper
    /\ reader = [NoReader EXCEPT !.decoder = NewYEnc]
    /\ outcome = NoOutcome
    /\ yielded = <<>>
    /\ ncalls = 0
    /\ api = "decode"
    /\ server = "none"
    /\ asked = 0

\* decoder.decode(chunk), the chunk being the next n bytes
DecodeChunk ==
    /\ \E n \in 1..Len(wire) :
         LET chunk == SubSeq(wire, 1, n)
             r == YEncDecode(reader.decoder, chunk)
         IN /\ reader' = [reader EXCEPT !.decoder = r.dec]
            /\ yielded' = yielded \o r.data
            /\ outcome' = Yield(<<chunk>>)
            /\ wire' = SubSeq(wire, n + 1, Len(wire))
    /\ UNCHANGED <<buffer, generating, overview_fmt, closed, sent, stack, call, wrapper,
                   srv, ncalls, api, server, asked>>

NextDecode == DecodeChunk

SpecDecode == InitDecode /\ [][NextDecode]_vars

(***************************************************************************)
(* Properties.                                                             *)
(***************************************************************************)
\* a step in which the caller makes a top-level call, which calls command()
Calls == call = "idle" /\ ncalls' # ncalls

Last(s) == s[Len(s)]

\* C1: for each reader kind, a command() called while a reader that has been
\* advanced is suspended at a yield raises NNTPSyncError and writes nothing;
\* once the reader has been iterated to exhaustion command() is accepted:
\* its command line is written.
C1_SyncDiscipline ==
    [][Calls =>
         /\ reader.pc \in {"Y1", "Y2"} =>
               /\ reader.kind \in {"plain", "gzip", "yenczlib"}
               /\ outcome'.kind = "NNTPSyncError"
               /\ sent' = sent /\ wire' = wire /\ call' = "idle"
         /\ reader.pc = "done" =>
               /\ outcome'.kind # "NNTPSyncError"
               /\ Len(sent') = Len(sent) + 1]_vars

\* a command() was refused while a yEnc+zlib reader was suspended
C1_Witness ==
    /\ outcome.kind = "NNTPSyncError"
    /\ reader.kind = "yenczlib" /\ reader.pc = "Y2"
    /\ Len(sent) = 1

\* C2 as stated: every command() issued once info() has returned the reader,
\* its first advance still to come, raises NNTPSyncError.
C2_StreamingSinceInfo ==
    [][(Calls /\ reader.pc \in {"new", "Y1", "Y2"}) => outcome'.kind = "NNTPSyncError"]_vars

\* C2, amended: the connection is streaming from the first advance of the
\* reader: a command() called while the reader is suspended at a yield raises
\* NNTPSyncError, but between info() returning the reader and its first
\* advance the flag is still false and a command() is accepted and written.
C2_StreamingSinceFirstAdvance ==
    /\ [](reader.pc = "new" => ~generating)
    /\ [][Calls =>
            /\ reader.pc = "new" =>
                  /\ outcome'.kind # "NNTPSyncError"
                  /\ Len(sent') = Len(sent) + 1
            /\ reader.pc \in {"Y1", "Y2"} => outcome'.kind = "NNTPSyncError"]_vars

\* a second command was written while the reader info() returned was unstarted
C2_Witness ==
    /\ reader.pc = "new"
    /\ Len(sent) = 2 /\ ncalls = 2
    /\ call = "command"

\* a reader has been advanced and has not read the terminator line
Unterminated == reader.kind # "none" /\ reader.pc # "done" /\ reader.gpc # "done"

IsPrefix(a, b) == Len(a) <= Len(b) /\ SubSeq(b, 1, Len(a)) = a

\* the reader is of the kind made for the encoding the server used
Matched(kind, encs) == reader.kind = kind /\ reader.src.enc \in encs

\* C4: the plain reader and the gzip reader yield each line of the body at
\* most once, a dot-stuffed line with one leading dot removed and every
\* other line unchanged: what they have yielded is a prefix of the lines the
\* server sent, as they were before dot-stuffing.
C4_SingleYield ==
    (Matched("plain", {"plain"}) \/ Matched("gzip", {"gzin"})) =>
        IsPrefix(yielded, reader.src.lines)

\* the line status() is about to parse, and the frame that called it
Line == FifoReadline(buffer).data
Top == stack[Len(stack)]
StatusRead == call = "command" /\ Line # <<>>
AUTHINFO == {"AUTHINFO USER", "AUTHINFO PASS"}
\* the frame a value returned by the top frame comes to: the nearest one
\* below it that is not itself returning the result of its retry
Handler ==
    CHOOSE i \in 0..(Len(stack) - 1) :
        /\ i > 0 => stack[i].pc # "retry"
        /\ \A j \in (i + 1)..(Len(stack) - 1) : stack[j].pc = "retry"
\* frame i of the stack goes from some other position to pc
Moves(i, pc) == i >= 1 /\ i < Len(stack') /\ stack[i].pc # pc /\ stack'[i].pc = pc

RECURSIVE Yields(_)
Yields(lines) ==
    IF lines = <<>> THEN <<>>
    ELSE (IF StartsWith(Head(lines), <<DOT>>)
          THEN <<Head(lines), Stuff(Head(lines))>> ELSE <<Head(lines)>>)
         \o Yields(Tail(lines))

\* C7: the gzip reader comes to its end without an error and with the same
\* lines yielded, those the plain reader yields for the body, whether the
\* terminator is inside the compressed stream or follows it.
C7_TerminationEquivalence ==
    (Matched("gzip", {"gzin", "gzout"}) /\ ncalls = 1 /\ reader.pc \in {"done", "failed"}) =>
        /\ reader.pc = "done"
        /\ yielded = Yields(reader.src.lines)

\* C8: a reader that has been advanced is the gzip reader whenever its status
\* message contains COMPRESS=GZIP, whatever yz is; without it, it is the
\* yEnc+zlib reader if yz is set and the plain reader if not.  A wrapper's
\* reader has yz set exactly when the wrapper's command is XZHDR or XZVER.
C8_ReaderDispatch ==
    /\ reader.kind # "none" =>
          reader.kind = CASE Contains(reader.message, COMPRESS_GZIP) -> "gzip"
                          [] reader.yz -> "yenczlib"
                          [] OTHER -> "plain"
    /\ (reader.pc # "none" /\ reader.wrap.name # "none") =>
          (reader.yz <=> wrapper_frame(reader.wrap).verb \in {"XZHDR", "XZVER"})

\* _xover("XZVER") got a gzip response: yz is set and the gzip reader serves it
C8_Witness ==
    /\ reader.kind = "gzip" /\ reader.yz
    /\ reader.wrap.name = "_xover" /\ reader.wrap.verb = "XZVER"
    /\ Contains(reader.message, COMPRESS_GZIP)
    /\ reader.pc = "done"

\* C9: for every line status() reads, a line with no tokens included, it
\* raises NNTPProtocolError (first token not an integer, or code outside
\* [100,600)), NNTPTemporaryError (400..499), NNTPPermanentError (500..599) or
\* returns (code, message) with 100 <= code <= 399; nothing else escapes.
C9_FourOutcomes ==
    StatusRead =>
        LET res == status(Line)
            parts == Split1(RStrip(Line))
            bad == parts = <<>> \/ ~IsInt(parts[1]) \/ IntOf(parts[1]) < 100
                     \/ IntOf(parts[1]) >= 600
        IN /\ res.kind \in {"NNTPProtocolError", "NNTPTemporaryError", "NNTPPermanentError",
                             "return"}
           /\ res.kind = "NNTPProtocolError" <=> bad
           /\ res.kind = "NNTPTemporaryError" => 400 <= res.code /\ res.code <= 499
           /\ res.kind = "NNTPPermanentError" => 500 <= res.code /\ res.code <= 599
           /\ res.kind = "return" => 100 <= res.code /\ res.code <= 399

\* the status the top command() reads makes the caller's call fail with a
\* reply error: a 4xx other than 480 or a 5xx, or a code returned to a
\* wrapper that insists on another
Refused(res) ==
    \/ res.kind = "NNTPPermanentError"
    \/ res.kind = "NNTPTemporaryError" /\ res.code # 480
    \/ /\ res.kind = "return" /\ Handler = 0
       /\ wrapper.name # "none" /\ res.code # wrapper_code(wrapper)

Retries(verb) ==
    /\ status(Line).kind = "return" /\ status(Line).code = 281
    /\ Handler >= 1 /\ Moves(Handler, "retry") /\ stack[Handler].verb = verb

Written == SubSeq(sent', Len(sent) + 1, Len(sent'))
IsData(e) == e[1] = "sendall"
\* post() reads the status that follows the article
FinalRead == call = "final" /\ Line # <<>>
\* a body line the loop of post() stops at
Stops(line) ==
    \E k \in 1..Len(line) :
        /\ line[k] \in {NUL, CR}
        /\ ~(line[k] = CR /\ k = Len(line) - 1 /\ line[Len(line)] = LF)
FirstIllegal(lines) ==
    IF \E i \in 1..Len(lines) : Stops(lines[i])
    THEN CHOOSE i \in 1..Len(lines) : Stops(lines[i]) /\ \A j \in 1..(i - 1) : ~Stops(lines[j])
    ELSE Len(lines) + 1

\* C12: when a body line holds an embedded NUL or CR, post() writes the header
\* block, the lines before that line and the terminator, nothing of that line
\* or a later one, reads the final status, and raises
\* NNTPDataError("Illegal characters found") whatever that status is.
C12_IllegalBody ==
    [][/\ (Written # <<>> /\ IsData(Written[1])) =>
             LET lines == BytesIOLines(wrapper.body)
                 n == FirstIllegal(lines)
             IN n <= Len(lines) =>
                  /\ Len(Written) = n + 1
                  /\ Written[Len(Written)][2] = TERMINATOR
                  /\ \A i \in 2..Len(Written) : ~Illegal(Slice(Written[i][2], 0, Len(Written[i][2]) - 2))
                  /\ call' = "final" /\ wrapper'.illegal
       /\ (FinalRead /\ wrapper.illegal) =>
             /\ outcome'.kind = "NNTPDataError"
             /\ outcome'.text = "Illegal characters found"]_vars

\* C13: post() writes the article only in the step in which command("POST")
\* returns 340, and for any other code it raises NNTPReplyError with nothing
\* more written; what it writes is the header block ending in a blank line,
\* the body lines each ending in CRLF, and last a lone ".\r\n"; then one
\* status line is read, and for a body without illegal lines a code other
\* than 240 raises NNTPReplyError.
C13_PostSequence ==
    [][/\ (call = "command" /\ Line # <<>> /\ OnStatus(stack, status(Line), generating).done) =>
             LET out == OnStatus(stack, status(Line), generating).out
             IN IF out.kind = "return" /\ out.code = 340
                THEN /\ Len(Written) >= 2 /\ \A i \in 1..Len(Written) : IsData(Written[i])
                     /\ LET hdr == Written[1][2]
                        IN /\ EndsWith(hdr, EOL)
                           /\ hdr = EOL \/ EndsWith(hdr, EOL \o EOL)
                           /\ wrapper.headers # <<>> =>
                                hdr = <<83, 58, 32, 120>> \o EOL \o EOL
                     /\ \A i \in 2..(Len(Written) - 1) :
                           /\ EndsWith(Written[i][2], EOL)
                           /\ Written[i][2] # TERMINATOR
                           /\ Find(Written[i][2], EOL, 0) = Len(Written[i][2]) - 2
                     /\ Written[Len(Written)][2] = TERMINATOR
                     /\ call' = "final"
                ELSE /\ Written = <<>> /\ call' = "idle"
                     /\ out.kind = "return" =>
                          /\ outcome'.kind = "NNTPReplyError" /\ outcome'.code = out.code
       /\ (Written # <<>> /\ IsData(Written[1])) =>
             /\ call = "command" /\ status(Line).kind = "return" /\ status(Line).code = 340
             /\ Top.verb = "POST" /\ Last(sent)[1] # "sendall"
       /\ FinalRead =>
             /\ call' = "idle" /\ sent' = sent
             /\ FifoUnread(buffer) = Line \o FifoUnread(buffer')
             /\ outcome'.kind \in {"message_id", "True"} => status(Line).code = 240
             /\ (~wrapper.illegal /\ status(Line).kind = "return" /\ status(Line).code # 240) =>
                   /\ outcome'.kind = "NNTPReplyError" /\ outcome'.code = status(Line).code]_vars

\* an article with a header, a dot-stuffed line and an unterminated last line
\* was written after 340 and accepted with 240
C13_Witness ==
    /\ Len(sent) = 5 /\ sent[1] = <<"POST">>
    /\ sent[2][2] = <<83, 58, 32, 120, CR, LF, CR, LF>>
    /\ sent[3][2] = <<DOT, DOT, 97, CR, LF>>
    /\ sent[4][2] = <<98, CR, LF>>
    /\ sent[5][2] = TERMINATOR
    /\ call = "idle" /\ outcome.kind = "True"

\* C14: for a final status 240 (the body having no illegal line) post()
\* returns the message-id when the first token of the status message has the
\* form <...> and True otherwise, an empty status message included.
C14_PostResult ==
    [][(FinalRead /\ ~wrapper.illegal /\ status(Line).kind = "return"
          /\ status(Line).code = 240) =>
            LET message == status(Line).message
                n == TokenLen(message)
                token == SubSeq(message, 1, n)
            IN IF n >= 2 /\ token[1] = 60 /\ token[n] = 62
               THEN outcome'.kind = "message_id" /\ outcome'.value = token
               ELSE outcome'.kind = "True"]_vars

\* the bytes of the stream written to the Fifo so far
WrittenSoFar == SubSeq(srv.bytes, 1, Len(srv.bytes) - Len(wire))
\* the lines of a byte string: it is cut after each CR LF, scanning from the left
RECURSIVE LinesOf(_)
LinesOf(bytes) ==
    IF \E i \in 1..(Len(bytes) - 1) : bytes[i] = CR /\ bytes[i + 1] = LF
    THEN LET i == CHOOSE i \in 1..(Len(bytes) - 1) :
                     /\ bytes[i] = CR /\ bytes[i + 1] = LF
                     /\ \A j \in 1..(i - 1) : ~(bytes[j] = CR /\ bytes[j + 1] = LF)
         IN <<SubSeq(bytes, 1, i + 1)>> \o LinesOf(SubSeq(bytes, i + 2, Len(bytes)))
    ELSE <<>>

\* C15: however the stream is cut into chunks and wherever readline() calls
\* fall between the writes, each line returned ends with CR LF and holds no
\* other CR LF, the lines returned are the first lines of what was written,
\* and they and the unread contents together are what was written; a
\* readline() that returns nothing leaves the unread contents as they were,
\* and does so only when they hold no complete line.
C15_LineRoundTrip ==
    /\ [](/\ \A i \in 1..Len(yielded) :
               /\ EndsWith(yielded[i], EOL)
               /\ Find(yielded[i], EOL, 0) = Len(yielded[i]) - 2
          /\ Len(yielded) <= Len(LinesOf(WrittenSoFar))
          /\ yielded = SubSeq(LinesOf(WrittenSoFar), 1, Len(yielded))
          /\ Join(yielded) \o FifoUnread(buffer) = WrittenSoFar)
    /\ [][(wire' = wire /\ outcome'.kind = "yield") =>
            IF outcome'.value = <<>>
            THEN /\ FifoUnread(buffer') = FifoUnread(buffer)
                 /\ LinesOf(FifoUnread(buffer)) = <<>>
            ELSE /\ yielded' = Append(yielded, outcome'.value)
                 /\ outcome'.value = LinesOf(FifoUnread(buffer))[1]]_vars

\* a line whose CR and LF came in different chunks was returned, then a
\* readline() found only an incomplete line
C15_Witness ==
    /\ srv.bytes = <<97, CR, LF, 97>> /\ wire = <<>>
    /\ yielded = << <<97, CR, LF>> >>
    /\ Len(buffer.buf) = 4 /\ buffer.pos = 3
    /\ outcome = Yield(<<>>)

\* the plain bytes whose encoding the decoder has been fed
Fed == SubSeq(srv.bytes, 1, Len(srv.bytes) - Len(wire))

\* C16: whatever the plain bytes, the line breaks and the escapes of a legal
\* encoding, what one decoder has returned for the lines fed to it is the
\* plain bytes they encode, byte for byte, and its crc32 is the CRC32 of
\* those bytes; with all lines fed that is the whole of plain.
C16_YEncRoundTrip ==
    /\ yielded = Fed
    /\ reader.decoder.escape = 0
    /\ reader.decoder.crc32 = crc32(Fed, ZERO32)
    /\ Fed = <<97>> => reader.decoder.crc32 = <<232, 183, 190, 67>>
    /\ wire = <<>> => yielded = srv.bytes

\* three bytes of which two are critical were decoded from two lines, one
\* with every byte escaped
C16_Witness ==
    /\ srv.bytes = <<214, 97, 19>> /\ wire = <<>>
    /\ yielded = <<214, 97, 19>>
    /\ outcome = Yield(<< <<EQ, 61 + 64, CR, LF>> >>)
    /\ reader.decoder.crc32 # ZERO32

\* list_overview_fmt fails in this step: its command is refused, or the
\* reader of its response fails or yields a line it cannot parse
FmtRefused == StatusRead /\ wrapper.name = "list_overview_fmt" /\ Refused(status(Line))
FmtMalformed ==
    /\ call = "next" /\ reader.wrap.name = "list_overview_fmt"
    /\ ~overview_fmt.set /\ overview_fmt' = FALLBACK_FMT

\* C17: when LIST OVERVIEW.FMT fails with a 4xx/5xx reply, an unexpected code
\* or a malformed line in its body, overview_fmt takes the seven fallback
\* names and _xover goes on to write its XOVER / XZVER command.
C17_FmtFallback ==
    [][(FmtRefused \/ FmtMalformed) =>
          /\ overview_fmt' = FALLBACK_FMT
          /\ Len(overview_fmt'.names) = 7
          /\ Len(sent') = Len(sent) + 1
          /\ Last(sent')[1] \in {"XOVER", "XZVER"}
          /\ call' = "command" /\ wrapper'.name = "_xover"]_vars

\* C18: list_active yields (name, low, high, status) for each line of the
\* body, the first integer on the wire being low and the second high, and
\* raises NNTPDataError for a line with fewer than four fields or with a
\* water mark that is no integer.
C18_ListActive ==
    [][(reader.wrap.name = "list_active" /\ Len(yielded') = Len(yielded) + 1) =>
          LET line == Last(yielded')
              parts == SplitAll(line)
          IN /\ line = Decode(LINE_G) => outcome' = Yield(<< <<97>>, 5, 1, <<121>> >>)
             /\ IF Len(parts) >= 4 /\ IsInt(parts[2]) /\ IsInt(parts[3])
                THEN outcome' = Yield(<<parts[1], IntOf(parts[2]), IntOf(parts[3]), parts[4]>>)
                ELSE outcome'.kind = "NNTPDataError"]_vars

\* the client is waiting for a status line, a body line or a gzip chunk and
\* has to read from the socket, and recv() has nothing to return
NeedsRecv ==
    \/ call = "command" /\ FifoReadline(buffer).data = <<>>
    \/ call = "next" /\ Advance(reader, buffer, generating).ev = "need"
RecvEOF == NeedsRecv /\ wire = <<>>
IsSuffix(s, t) == Len(s) <= Len(t) /\ s = SubSeq(t, Len(t) - Len(s) + 1, Len(t))

\* C19: when recv returns zero bytes while the client waits for a status
\* line, a body line or a gzip chunk, the read raises NNTPError("Failed to
\* read from socket"), the line buffer gains nothing and no partial line is
\* returned or yielded.  The error reaches the caller, except under
\* overview_fmt, whose `except NNTPError` takes it for the fallback and lets
\* _xover go on to a command that meets the same end of stream.
C19_RecvEOF ==
    [][RecvEOF =>
          /\ IF call = "command" /\ wrapper.name = "list_overview_fmt"
             THEN /\ overview_fmt' = FALLBACK_FMT
                  /\ call' = "command" /\ wrapper'.name = "_xover"
                  /\ wire' = <<>> /\ outcome' = NoOutcome
             ELSE /\ outcome' = RaiseText("NNTPError", "Failed to read from socket")
                  /\ call' = "idle"
          /\ IsSuffix(FifoUnread(buffer'), FifoUnread(buffer))
          /\ yielded' = yielded]_vars

\* the stream ended in the middle of a body line: the reader failed with
\* the part-line still unread in the buffer
C19_Witness ==
    /\ outcome = RaiseText("NNTPError", "Failed to read from socket")
    /\ reader.pc = "failed" /\ reader.kind = "plain"
    /\ FifoUnread(buffer) # <<>> /\ Find(FifoUnread(buffer), EOL, 0) < 0
    /\ wire = <<>>

\* __exit__ is entered in this step, and it comes to its end in this step
ExitBegins == api = "with" /\ api' # "with"
ExitDone == api # "left" /\ api' = "left"
WritesQuit == Len(sent') = Len(sent) + 1 /\ Last(sent') = CmdLine("QUIT", "")

\* C20 as stated: __exit__ always attempts QUIT on the transport: it writes
\* QUIT, or, when the body has closed the connection with close() or quit(),
\* the write fails and the with statement raises OSError; when QUIT fails
\* with an NNTPError the transport is closed and the error raised again.
C20_ExitAlwaysQuits ==
    [][/\ ExitBegins =>
             IF closed THEN outcome' = BadFileDescriptor /\ sent' = sent /\ api' = "left"
             ELSE WritesQuit
       /\ (ExitDone /\ IsNNTPError(outcome'.kind)) => closed']_vars

\* C20, amended: __exit__ always calls quit().  While a reader is active
\* quit() writes nothing and fails with NNTPSyncError, whether or not the
\* body closed the connection; otherwise it writes QUIT, or, the connection
\* being closed by close() or quit() in the body, the with statement raises
\* the OSError of the write.  The with statement ends without an exception
\* only after a 205, with the transport closed; when quit() fails with an
\* NNTPError the transport is closed and that error is raised again.
C20_ExitQuit ==
    [][/\ ExitBegins =>
             IF generating
             THEN outcome' = SyncError /\ sent' = sent /\ api' = "left" /\ closed'
             ELSE IF closed
             THEN outcome' = BadFileDescriptor /\ sent' = sent /\ api' = "left" /\ closed'
             ELSE WritesQuit /\ api' = "exit" /\ ~closed'
       /\ ExitDone =>
             /\ outcome'.kind = "OSError" \/ closed'
             /\ outcome'.kind = "OSError" => ExitBegins /\ closed /\ ~generating
             /\ outcome' = ExitFalse \/ outcome'.kind = "OSError" \/ IsNNTPError(outcome'.kind)
             /\ outcome' = ExitFalse =>
                   StatusRead /\ status(Line).kind = "return" /\ status(Line).code = 205
             /\ (StatusRead /\ Len(stack) = 1 /\ status(Line).kind = "return"
                             /\ status(Line).code # 205) =>
                   outcome' = Raise("NNTPReplyError", status(Line).code, status(Line).message)
             /\ (call = "command" /\ ~StatusRead /\ wire = <<>>) =>
                   outcome' = RaiseText("NNTPError", "Failed to read from socket")]_vars

\* the body kept a reader and closed the connection; leaving the block
\* raised NNTPSyncError and QUIT was never written
C20_Witness ==
    /\ api = "left" /\ outcome = SyncError
    /\ generating /\ closed /\ ncalls = 2
    /\ sent = <<CmdLine("LIST", "")>>

\* the items of OrderedDict d whose key is k in some spelling
Entries(d, k) == {i \in 1..Len(d) : casefold(d[i][1]) = casefold(k)}
Without(d, i) == SubSeq(d, 1, i - 1) \o SubSeq(d, i + 1, Len(d))

\* C21: in a HeaderDict no two stored keys are equal under casefolding; get,
\* set and delete with any spelling of a key address the one item stored for
\* it; setting an existing key under another spelling replaces its value and
\* leaves the number of items and their order alone; a new key goes last, so
\* iteration is in order of first insertion.
C21_CaseInsensitive ==
    [][LET k == wrapper'.acc[1]
           v == wrapper'.acc[2]
           E == Entries(yielded, k)
       IN /\ \A i, j \in 1..Len(yielded') :
                i # j => casefold(yielded'[i][1]) # casefold(yielded'[j][1])
          /\ Cardinality(E) <= 1
          /\ wrapper'.name = "__getitem__" =>
                /\ yielded' = yielded
                /\ IF E = {} THEN outcome' = KeyError(k)
                   ELSE \A i \in E : outcome' = Yield(yielded[i][2])
          /\ wrapper'.name = "__setitem__" =>
                IF E = {} THEN yielded' = Append(yielded, <<k, v>>)
                ELSE /\ Len(yielded') = Len(yielded)
                     /\ \A i \in 1..Len(yielded) :
                           yielded'[i] = IF i \in E THEN <<yielded[i][1], v>> ELSE yielded[i]
          /\ wrapper'.name = "__delitem__" =>
                IF E = {} THEN yielded' = yielded /\ outcome' = KeyError(k)
                ELSE \A i \in E : yielded' = Without(yielded, i)]_vars

\* "ss" was stored second with one value and set again as U+00DF with
\* another: two items, the second with its first spelling and the new value
C21_Witness ==
    /\ api = "headerdict"
    /\ wrapper = DictCall("__setitem__", <<SHARP_S>>, <<50>>)
    /\ yielded = << <<<<65>>, <<49>>>>, <<<<115, 115>>, <<50>>>> >>
    /\ ncalls = 3

\* parse_headers has ended; the lines it pulled from its iterator
Parsed == api = "parse_headers" /\ call = "idle"
Pulled == Len(srv.lines) - Len(wire)
IsEmptyLine(line) == line = <<>> \/ line = <<CR, LF>>
IsContinuation(line) == line # <<>> /\ line[1] \in {32, 9}
EmptyLines == {i \in 1..Len(srv.lines) : IsEmptyLine(srv.lines[i])}

\* C22: parse_headers pulls the lines of its input up to and including the
\* first empty line ("" or "\r\n") and none after it, or every line when
\* there is no empty line; a repeated name has one item, with the last value
\* given for it; a continuation line as the first line raises ValueError.
C22_ParseHeaders ==
    Parsed =>
       /\ outcome.kind = "HeaderDict" =>
             /\ IF EmptyLines = {} THEN Pulled = Len(srv.lines)
                ELSE Pulled \in EmptyLines /\ \A i \in EmptyLines : Pulled <= i
             /\ \A i, j \in 1..Len(outcome.value) :
                   i # j => casefold(outcome.value[i][1]) # casefold(outcome.value[j][1])
             /\ \A i \in 1..Len(yielded) : \E e \in 1..Len(outcome.value) :
                   /\ casefold(outcome.value[e][1]) = casefold(yielded[i][1])
                   /\ (\A j \in (i + 1)..Len(yielded) :
                          casefold(yielded[j][1]) # casefold(yielded[i][1]))
                      => outcome.value[e][2] = yielded[i][2]
       /\ (srv.lines # <<>> /\ IsContinuation(srv.lines[1])) =>
             /\ outcome = RaiseText("ValueError", "First header is a continuation")
             /\ Pulled = 1

\* parse_headers pulls a continuation line after a header
Continues == call = "parse" /\ wire # <<>> /\ IsContinuation(Head(wire)) /\ yielded # <<>>

LowerBytes(s) == [i \in 1..Len(s) |-> IF s[i] \in 65..90 THEN s[i] + 32 ELSE s[i]]

\* C24: trailer_crc32 returns the value of the eight hex digits of the first
\* field that is whitespace, "crc32=" or "crc=" in any case, and the digits
\* (" CRC32=DED29F4F" and " crc32=ded29f4f" both give 0xDED29F4F), and None
\* for a line without such a field.
C24_TrailerCrc32 ==
    (api = "trailer_crc32" /\ call = "idle") =>
       LET t == trailer_crc32(LowerBytes(wire))
       IN /\ outcome = IF t.found THEN Yield(t.value) ELSE Outcome("None", 0, <<>>, "", <<>>)
          /\ wire \in {<<32, 99, 114, 99, 51, 50, EQ, 100, 101, 100, 50, 57, 102, 52, 102>>,
                       <<32, 67, 82, 67, 51, 50, EQ, 68, 69, 68, 50, 57, 70, 52, 70>>}
                => outcome = Yield(<<222, 210, 159, 79>>)
          /\ (\A i \in 1..Len(wire) : wire[i] \notin WHITESPACE) => outcome.kind = "None"

\* a command line is written in this step
Writes == Len(sent') > Len(sent)
\* the step in which overview_fmt takes the end of the stream for a failure
\* of LIST OVERVIEW.FMT and _xover writes its command
FallbackAtEOF == RecvEOF /\ call = "command" /\ wrapper.name = "list_overview_fmt"

NumSent(verbs) == Cardinality({i \in 1..Len(sent) : sent[i][1] \in verbs})

\* C26: whatever the server replies (480 to AUTHINFO USER, to AUTHINFO PASS
\* or to the retried command included), one command() call writes at most
\* four command lines: the command, AUTHINFO USER, AUTHINFO PASS and the
\* command again; it authenticates at most once and retries at most once.
C26_BoundedAuth ==
    (api = "raw" /\ ncalls = 1) =>
       /\ Len(sent) <= 4
       /\ NumSent({"AUTHINFO USER"}) <= 1
       /\ NumSent({"AUTHINFO PASS"}) <= 1
       /\ NumSent(Verbs("raw")) <= 2

\* what the server sent after the body a reader on its own reads
AfterBody ==
    SubSeq(srv.bytes, Len(Encoded(srv.lines, srv.enc)) + 1, Len(srv.bytes))
\* line i of the body as the reader should yield it: as the server meant it
\* or as it was on the wire
AsSent(i) == {Decode(srv.lines[i]), Decode(Stuff(srv.lines[i]))}

\* C27: the plain reader yields the lines of the body in the order sent,
\* each with its CRLF, up to the first ".\r\n"; it consumes that line and
\* leaves every byte after it unread, however recv splits the stream.
C27_PlainReader ==
    (api = "info" /\ srv.enc = "plain") =>
       /\ Len(yielded) <= Len(srv.lines)
       /\ \A i \in 1..Min(Len(yielded), Len(srv.lines)) :
             yielded[i] \in AsSent(i) /\ EndsWith(yielded[i], EOL)
       /\ reader.pc # "failed"
       /\ reader.pc = "done" =>
             /\ Len(yielded) = Len(srv.lines)
             /\ FifoUnread(buffer) \o wire = AfterBody
             /\ ~generating

\* what _info_plain yields for the body a reader on its own reads, and the
\* lines of that body, as the caller sees them
PlainYields == [i \in 1..Len(Yields(srv.lines)) |-> Decode(Yields(srv.lines)[i])]
BodyLines == [i \in 1..Len(srv.lines) |-> Decode(srv.lines[i])]

\* C28: for a given stream the gzip reader yields the same lines and ends at
\* the terminator whatever chunks recv returns: it raises no error, yields
\* the lines it yields when the stream comes in one chunk, and is done
\* with all of them yielded.
C28_GzipChunking ==
    (api = "info" /\ srv.enc \in {"gzin", "gzout"}) =>
       /\ reader.pc # "failed"
       /\ IsPrefix(yielded, PlainYields)
       /\ reader.pc = "done" => yielded = PlainYields

\* C30: the yEnc+zlib reader yields the lines the plain reader yields for
\* the uncompressed body (the body's lines; also accepted: those with the
\* plain reader's second yield of a dot-stuffed line) and raises no error.
C30_YencZlibReader ==
    (api = "info" /\ srv.enc = "yz") =>
       /\ reader.pc # "failed"
       /\ (IsPrefix(yielded, BodyLines) \/ IsPrefix(yielded, PlainYields))
       /\ reader.pc = "done" => yielded \in {BodyLines, PlainYields}

\* article() has returned its tuple for a response with an article in it
ArticleReturned ==
    /\ api = "article" /\ outcome.kind = "article" /\ srv.enc = "article"
    /\ wrapper.arg = "None"
\* what the server sent after the article
AfterArticle ==
    SubSeq(srv.bytes, Len(StatusBytes(220, MSG_ARTICLE) \o ArticleBytes(srv.lines)) + 1,
           Len(srv.bytes))

\* C29: when article() returns for a well-terminated response that is no
\* yEnc article, the terminator has been consumed and no byte after it has
\* been read, generating is false, and the body returned is the
\* concatenation of the lines between the empty line and the terminator
\* (as the server meant them or as they were on the wire); every response
\* the server sends for ARTICLE is one of the cases.
C29_ArticleOneResponse ==
    (ArticleReturned /\ srv.lines.body # YENC_BODY /\ srv.lines.headers # <<HDR_Y>>) =>
       /\ FifoUnread(buffer) \o wire = AfterArticle
       /\ ~generating
       /\ outcome.value[2] \in {RawLines(srv.lines.body), WireLines(srv.lines.body)}

\* a step in which the yEnc+zlib reader ends, in its header or later
YzEnds == reader.kind = "yenczlib" /\ reader.pc = "run" /\ reader'.pc \in {"done", "failed"}
\* recv() returned no bytes
AtEOF == outcome'.kind = "NNTPError"

\* C31: a yEnc+zlib reader whose response does not begin with a line that
\* starts with "=ybegin", the empty response included, ends with
\* NNTPDataError("Bad yEnc header") and has yielded no line.
C31_YencHeader ==
    [][(YzEnds /\ reader.src.enc = "plain" /\ ~AtEOF) =>
          /\ outcome' = RaiseText("NNTPDataError", "Bad yEnc header")
          /\ yielded' = <<>>]_vars

\* the yEnc+zlib reader on its own has consumed the terminator after its
\* header line
YzTerminated ==
    /\ api = "info" /\ reader.kind = "yenczlib"
    /\ reader.phase = "data" /\ reader.gpc = "done"
\* the encoded line of the body starts with "." and is dot-stuffed
DotLed == StartsWith(YEncEncode(Deflate(RawLines(srv.lines))), <<DOT>>)

\* C32: once the yEnc+zlib reader has consumed the terminator, generating is
\* false and the reader has raised NNTPDataError "Missing yEnc trailer" if
\* it saw no =yend line, "Bad yEnc trailer" if trailer_crc32 finds no crc
\* field in it, "Bad yEnc CRC" if the value differs from the decoder's
\* running CRC, and has ended normally only if they are equal; the running
\* CRC is that of the data lines, the =yend line not included.
C32_YencTrailer ==
    YzTerminated =>
       LET t == trailer_crc32(reader.trailer)
       IN /\ ~generating
          /\ reader.pc \in {"done", "failed"}
          /\ outcome =
                (CASE reader.trailer = <<>> ->
                         RaiseText("NNTPDataError", "Missing yEnc trailer")
                   [] reader.trailer # <<>> /\ ~t.found ->
                         RaiseText("NNTPDataError", "Bad yEnc trailer")
                   [] reader.trailer # <<>> /\ t.found /\ t.value # reader.decoder.crc32 ->
                         RaiseText("NNTPDataError", "Bad yEnc CRC")
                   [] OTHER -> StopIteration)
          /\ reader.pc = "done" <=> outcome = StopIteration
          /\ (reader.trailer = <<>>) <=> (srv.enc = "yznt")
          /\ ~DotLed =>
                reader.decoder.crc32 = crc32(Deflate(RawLines(srv.lines)), ZERO32)

\* a trailer without a crc field ended the reader with "Bad yEnc trailer"
\* after it yielded the lines of the body
C32_Witness ==
    /\ YzTerminated /\ srv.enc = "yznc"
    /\ outcome = RaiseText("NNTPDataError", "Bad yEnc trailer")
    /\ yielded # <<>>

\* article() or body() has returned for a response with its empty line (in
\* an article) and its terminator
BodyReturned ==
    /\ api = "article" /\ call = "idle" /\ outcome.kind \in {"article", "body"}
    /\ srv.enc \in {"article", "body"} /\ srv.lines.sep
\* the lines _body() got from its reader
BodyGot == Yields(srv.lines.body)
IsYLine(line) == StartsWith(line, Y_LINE)
NotYLine(line) == ~IsYLine(line)
NotBlank(line) == line # EOL
\* the first line other than "\r\n" starts with "=y"
Sniffed(lines) ==
    LET rest == SelectSeq(lines, NotBlank) IN rest # <<>> /\ IsYLine(rest[1])
\* the lines from the first that is not "\r\n" on
RECURSIVE FromFirstLine(_)
FromFirstLine(lines) ==
    IF lines = <<>> \/ lines[1] # EOL THEN lines ELSE FromFirstLine(Tail(lines))
\* every line but those that start with "=y" through one fresh yEnc decoder
DecodedBody(lines) == YEncDecode(NewYEnc, Join(SelectSeq(lines, NotYLine))).data
SubjectYEnc ==
    /\ wrapper.name = "article"
    /\ \E i \in 1..Len(srv.lines.headers) : Contains(srv.lines.headers[i], YENC)

\* C33 as stated: an explicit decode argument wins; with none the body is
\* decoded iff its first line other than "\r\n" starts with "=y", the blank
\* lines before it discarded; when decoding, the lines that start with "=y"
\* are skipped and the others go through one fresh decoder.
C33_DecodeDecision ==
    BodyReturned =>
       outcome.value[2] =
          (CASE wrapper.arg = "True" -> DecodedBody(BodyGot)
             [] wrapper.arg = "False" -> Join(BodyGot)
             [] OTHER -> IF Sniffed(BodyGot) THEN DecodedBody(FromFirstLine(BodyGot))
                         ELSE Join(BodyGot))

\* C33, amended: as stated, but with no explicit argument article() decodes
\* the whole body when the Subject header contains "yEnc", whatever the
\* first line of the body is.
C33_DecodeDecisionSubject ==
    BodyReturned =>
       /\ outcome.value[2] =
             (CASE wrapper.arg = "True" -> DecodedBody(BodyGot)
                [] wrapper.arg = "False" -> Join(BodyGot)
                [] wrapper.arg = "None" /\ SubjectYEnc -> DecodedBody(BodyGot)
                [] OTHER -> IF Sniffed(BodyGot) THEN DecodedBody(FromFirstLine(BodyGot))
                            ELSE Join(BodyGot))
       /\ wrapper.arg # "None" => wrapper.decode = wrapper.arg

\* article() with no decode argument returned the body "7\r\n" of an article
\* whose subject contains "yEnc" decoded, the CRLF gone
C33_Witness ==
    /\ BodyReturned /\ wrapper.name = "article" /\ wrapper.arg = "None"
    /\ srv.lines.headers = <<HDR_Y>> /\ srv.lines.body = <<LINE_A>>
    /\ outcome.value[2] = YEncDecode(NewYEnc, LINE_A).data
    /\ wrapper.decode = "True"

\* a line of the body without its trailing LF or CR LF
Chomp(line) ==
    IF EndsWith(line, EOL) THEN SubSeq(line, 1, Len(line) - 2)
    ELSE IF EndsWith(line, <<LF>>) THEN SubSeq(line, 1, Len(line) - 1)
    ELSE line
\* the bytes written in this step after the header block
BodyWritten == Join([i \in 1..(Len(Written) - 1) |-> Written[i + 1][2]])

\* C34: of what post() writes after the header block, each block but the
\* last is a line of the body without its LF or CR LF, with one "." put
\* before it if it starts with ".", and CR LF after it; cut at each CR LF
\* these bytes are whole lines, and the only line that is a single "." is
\* the last one, the terminator.
C34_PostTerminator ==
    [][(Written # <<>> /\ IsData(Written[1])) =>
          LET lines == BytesIOLines(wrapper.body)
              n == Len(Written) - 2
              wired == LinesOf(BodyWritten)
          IN /\ n >= 0 /\ n <= Len(lines)
             /\ \A k \in 1..n : Written[k + 1][2] = Stuff(Chomp(lines[k])) \o EOL
             /\ Written[Len(Written)][2] = TERMINATOR
             /\ Join(wired) = BodyWritten
             /\ Len(wired) = n + 1
             /\ \A k \in 1..Len(wired) : wired[k] = TERMINATOR <=> k = Len(wired)]_vars

\* post() wrote a body of three lines of a single "." as three lines ".."
\* and the terminator
C34_Witness ==
    /\ call = "final" /\ wrapper.body = BODY_TERM
    /\ Len(sent) >= 5
    /\ \A k \in 1..3 : sent[Len(sent) - k] = <<"sendall", <<DOT, DOT, CR, LF>>>>
    /\ Last(sent) = <<"sendall", TERMINATOR>>

\* a step in which the command line of XOVER or XZVER is written
WritesXover == sent' # sent /\ Last(sent')[1] \in {"XOVER", "XZVER"}

WritesFmt == sent' # sent /\ Last(sent')[1] = "LIST OVERVIEW.FMT"

Unreturned == SubSeq(WrittenSoFar, Len(yielded) + 1, Len(WrittenSoFar))

\* C36: after any sequence of write, read, readline and readuntil calls,
\* len(fifo) is the number of bytes written less the number of bytes the
\* consuming calls have returned, the bytes written since the last read
\* call included.
C36_LenIsUnread ==
    FifoLen(buffer) = Len(WrittenSoFar) - Len(yielded)

\* a new Fifo that holds the unread bytes of f and nothing else
Undiscarded(f) == [buf |-> FifoUnread(f), buflist |-> <<>>, pos |-> 0]

\* every consuming call returns from f what it returns from g
SameReads(f, g) ==
    /\ \A length \in ReadLengths : FifoRead(f, length).data = FifoRead(g, length).data
    /\ FifoReadline(f).data = FifoReadline(g).data
    /\ \A token \in Tokens, size \in Sizes :
          LET r == FifoReaduntil(f, token, size)
              t == FifoReaduntil(g, token, size)
          IN r.found = t.found /\ r.data = t.data

\* C37: after every consuming operation pos is at most the discard size
\* (65,535); whether or not the consumed prefix was discarded, the unread
\* bytes are the bytes written and not yet returned, in the order written,
\* and every later read, readline and readuntil returns what it returns
\* from a Fifo that holds just those bytes.
C37_Discard ==
    /\ buffer.pos <= DISCARD_SIZE
    /\ buffer.pos <= Len(buffer.buf)
    /\ FifoUnread(buffer) = Unreturned
    /\ yielded = SubSeq(WrittenSoFar, 1, Len(yielded))
    /\ SameReads(buffer, Undiscarded(buffer))

\* read(1) brought pos, which was just below the discard size, to the
\* discard size, which discards nothing, and a second read(1) discarded the
\* consumed prefix and left one byte unread
C37_Witness ==
    /\ asked = DISCARD_SIZE - 1
    /\ wire = <<>>
    /\ yielded = <<CR, LF>>
    /\ api = "read" /\ outcome.value = <<LF>>
    /\ buffer = [buf |-> <<97>>, buflist |-> <<>>, pos |-> 0]

\* C38: read(length) with length > 0 and at least length bytes unread
\* returns exactly the next length bytes and leaves the rest unread;
\* otherwise (length <= 0, or fewer bytes unread) it returns all the unread
\* bytes, none if there are none, and leaves the Fifo empty; the bytes
\* returned so far are the first bytes written, in the order written.
C38_Read ==
    [][api' = "read" =>
          LET length == ncalls'
              unread == FifoUnread(buffer)
          IN /\ IF length > 0 /\ Len(unread) >= length
                THEN /\ outcome'.value = SubSeq(unread, 1, length)
                     /\ FifoUnread(buffer') = SubSeq(unread, length + 1, Len(unread))
                ELSE /\ outcome'.value = unread
                     /\ FifoUnread(buffer') = <<>>
                     /\ buffer' = NewFifo
             /\ yielded' = yielded \o outcome'.value
             /\ yielded' = SubSeq(WrittenSoFar', 1, Len(yielded'))]_vars

\* read(2) returned the first two of three unread bytes, which had been
\* written in two chunks, and left the third
C38_Witness ==
    /\ api = "read" /\ ncalls = 2
    /\ srv.bytes = <<97, CR, LF>> /\ wire = <<>>
    /\ outcome.value = <<97, CR>>
    /\ FifoUnread(buffer) = <<LF>>
    /\ asked = 0 /\ buffer.pos = 2

\* C39: decode() of one byte b, all arithmetic modulo 256: with an escape
\* pending it returns b - 106 and clears the flag, also when b is CR, LF or
\* "="; else "=" sets the flag and returns nothing; else CR and LF return
\* nothing; else it returns b - 42.  Every byte returned lies in 0..255.
C39_ByteRule ==
    [][/\ Len(outcome'.value[1]) = 1 =>
            LET b == outcome'.value[1][1]
                out == SubSeq(yielded', Len(yielded) + 1, Len(yielded'))
                escape == reader'.decoder.escape
            IN IF reader.decoder.escape = 1 THEN out = <<(b + 150) % 256>> /\ escape = 0
               ELSE IF b = EQ THEN out = <<>> /\ escape = 1
               ELSE IF b \in {CR, LF} THEN out = <<>> /\ escape = 0
               ELSE out = <<(b + 214) % 256>> /\ escape = 0
       /\ \A i \in 1..Len(yielded') : yielded'[i] \in 0..255]_vars

\* "=" and then CR were decoded one byte at a time: the CR was not skipped
\* but returned as 13 - 106 modulo 256
C39_Witness ==
    /\ api = "decode"
    /\ srv.bytes = <<EQ, CR>> /\ wire = <<>>
    /\ outcome = Yield(<< <<CR>> >>)
    /\ yielded = <<163>>
    /\ reader.decoder.escape = 0

\* decode() of all the bytes fed so far, in one call on a new decoder
Whole == YEncDecode(NewYEnc, WrittenSoFar)

\* C40: however the bytes are cut into decode() calls on one decoder, also
\* right after an "=", the outputs of the calls concatenated are what one
\* decode() of all the bytes returns on a new decoder, and the decoder is
\* left with the same escape flag and the same crc32, which is the CRC32 of
\* the output.
C40_Chunking ==
    /\ yielded = Whole.data
    /\ reader.decoder.escape = Whole.dec.escape
    /\ reader.decoder.crc32 = Whole.dec.crc32
    /\ reader.decoder.crc32 = crc32(yielded, ZERO32)

\* the bytes "j==" were decoded in two or three calls, the last of them the
\* second "=" alone, which the "=" ending the call before it escaped
C40_Witness ==
    /\ api = "decode"
    /\ srv.bytes = <<106, EQ, EQ>> /\ wire = <<>>
    /\ outcome = Yield(<< <<EQ>> >>)
    /\ yielded = <<64, 211>>
    /\ reader.decoder.escape = 0

====
